---------------------------- MODULE Spec2Model ----------------------------
(***************************************************************************)
(* A model of the trainer/training composition framework of nnabla-rl:     *)
(* ModelTrainer.train / setup_training with its Training hooks, the        *)
(* periodic target update wrapped around a Training, the TD3 wiring of     *)
(* trainers, solvers and target networks, the double-Q target and the C51  *)
(* categorical projection.                                                 *)
(*                                                                         *)
(* Parameters of a model are abstracted to one integer per scope name.     *)
(* Real-valued quantities of the C51 target are exact rationals            *)
(* <<numerator, denominator>> (the code computes them in float32).         *)
(***************************************************************************)
EXTENDS Integers, Sequences, FiniteSets, TLC

VARIABLES
    trainers,       \* trainer name -> ModelTrainer object (its fields)
    params,         \* nn parameter store: scope name -> parameter value
    call,           \* what the last operation did (history of one operation)
    iteration_num,  \* Algorithm.iteration_num
    ncalls,         \* trainer name -> number of train() calls that got past the guard
    config,         \* the algorithm's parameter object
    ddqn,           \* DDQNTraining object, its input and the result of compute_target
    c51,            \* C51 projection: input and result of compute_target
    trpo,           \* TRPO/GAIL batch preparation: its input and its result
    algo,           \* a parameter object, Training strategy or algorithm being built or run
    diag,           \* a concrete trainer's train() call and the diagnostics it returned
    scope,          \* models and the parameters registered under their scope names
    bcq,            \* BCQ target: the input and the result of compute_target
    online          \* an algorithm's online training loop: environment, buffer, counters

vars == <<trainers, params, call, iteration_num, ncalls, config, ddqn, c51,
          trpo, algo, diag, scope, bcq, online>>

---------------------------------------------------------------------------
(* Bounds of the model                                                     *)
MaxTrain == 4       \* train() calls per trainer
MaxBatch == 2       \* batch sizes 1..MaxBatch
MaxFreq  == 2       \* target_update_frequency in 1..MaxFreq
MaxParam == 1       \* parameter values 0..MaxParam
TauDen   == 2       \* tau ranges over k/TauDen, k in 0..TauDen
MaxIter  == 3       \* training iterations of an algorithm
MaxAtoms == 3       \* C51: num_atoms in 2..MaxAtoms
MaxV     == 1       \* C51: v_min < v_max, both in -MaxV..MaxV
MaxRewardNum == 3   \* rewards k/RewardDen, k in -MaxRewardNum..MaxRewardNum
RewardDen == 2
GammaDen == 2       \* gamma ranges over k/GammaDen, k in 0..GammaDen
Mass     == 2       \* C51: atom probabilities are multiples of 1/Mass
MaxAction == 2      \* DDQN: actions 1..MaxAction
MaxQ     == 1       \* DDQN: Q values 0..MaxQ
MaxLen   == 3       \* TRPO: batches of one or two episodes, 1..MaxLen steps in all
MaxR     == 1       \* TRPO: rewards and advantages 0..MaxR
MaxOps   == 2       \* Model: deepcopy calls and parameter writes

ParamVals  == 0..MaxParam
BatchSizes == 1..MaxBatch
Freqs      == 1..MaxFreq
Taus       == 0..TauDen

---------------------------------------------------------------------------
(* Exact rational arithmetic: <<n, d>> with d > 0, in lowest terms         *)
Abs(i) == IF i < 0 THEN -i ELSE i

RECURSIVE GCD(_, _)
GCD(a, b) == IF b = 0 THEN a ELSE GCD(b, a % b)

Rat(n, d) ==
    LET sn == IF d < 0 THEN -n ELSE n
        sd == Abs(d)
        g  == GCD(Abs(sn), sd)
    IN  <<sn \div g, sd \div g>>

RInt(i) == <<i, 1>>
RAdd(x, y) == Rat(x[1] * y[2] + y[1] * x[2], x[2] * y[2])
RSub(x, y) == Rat(x[1] * y[2] - y[1] * x[2], x[2] * y[2])
RMul(x, y) == Rat(x[1] * y[1], x[2] * y[2])
RDiv(x, y) == Rat(x[1] * y[2], x[2] * y[1])
RLe(x, y) == x[1] * y[2] <= y[1] * x[2]
RFloor(x) == x[1] \div x[2]
RCeil(x) == -((-x[1]) \div x[2])
RIsInt(x) == x[2] = 1
\* clip_by_value(x, lo, hi)
RClip(x, lo, hi) == IF RLe(x, lo) THEN lo ELSE IF RLe(hi, x) THEN hi ELSE x

\* The sum of the entries i.. of a row indexed 0..n-1
RECURSIVE RSumFrom(_, _)
RSumFrom(row, i) ==
    IF i \notin DOMAIN row THEN RInt(0) ELSE RAdd(row[i], RSumFrom(row, i + 1))

RSum(row) == RSumFrom(row, 0)

---------------------------------------------------------------------------
(* Events of a call, in the order the code performs them                   *)
Ev(op, layer, n) == [op |-> op, layer |-> layer, n |-> n]

Log(w, e) == [w EXCEPT !.trace = Append(@, e)]

Restrict(f, S) == [s \in S |-> f[s]]

\* The positions in trace t of the events op of layer `layer`
Positions(t, op, layer) == {i \in DOMAIN t : t[i].op = op /\ t[i].layer = layer}

---------------------------------------------------------------------------
(* Training objects.  A training is a chain of layers, layer 1 outermost:  *)
(* zero or more extensions around one innermost Training.                  *)
Layer(kind, src, dst, freq, tau) ==
    [kind |-> kind, src |-> src, dst |-> dst,
     target_update_frequency |-> freq, tau |-> tau]

PlainTraining   == Layer("Training", <<>>, <<>>, 0, 0)
PlainExtension  == Layer("TrainingExtension", <<>>, <<>>, 0, 0)
PeriodicalTargetUpdate(src, dst, freq, tau) ==
    Layer("PeriodicalTargetUpdate", src, dst, freq, tau)

\* dst = tau*src + (1-tau)*dst on one parameter; tau = t/TauDen, the result
\* rounded down to the parameter grid.
SoftUpdate(s, d, t) == (t * s + (TauDen - t) * d) \div TauDen

RECURSIVE copy_network_parameters(_, _, _, _)
copy_network_parameters(p, src, dst, t) ==
    IF src = <<>> \/ dst = <<>> THEN p
    ELSE copy_network_parameters(
             [p EXCEPT ![Head(dst)] = SoftUpdate(p[Head(src)], p[Head(dst)], t)],
             Tail(src), Tail(dst), t)

RECURSIVE setup_experience(_, _)
RECURSIVE before_update(_, _, _)
RECURSIVE after_update(_, _, _)

Training_setup_experience(w, i) == Log(w, Ev("setup_experience", i, 0))

Training_before_update(w, i, n) == Log(w, Ev("before_update", i, n))

Training_after_update(w, i, n) == Log(w, Ev("after_update", i, n))

TrainingExtension_setup_experience(w, i) ==
    setup_experience(Log(w, Ev("setup_experience", i, 0)), i + 1)

TrainingExtension_before_update(w, i, n) ==
    before_update(Log(w, Ev("before_update", i, n)), i + 1, n)

\* Mutant: an extension whose after_update forgets to delegate
TrainingExtension_after_update_NoDelegate(w, i, n) ==
    Log(w, Ev("after_update", i, n))

TrainingExtension_after_update(w, i, n) ==
    after_update(Log(w, Ev("after_update", i, n)), i + 1, n)

\* The periodic target update: an extension whose after_update, on every
\* target_update_frequency-th call (the train count it is handed), copies
\* the parameters of src to dst with mixing coefficient tau.
PeriodicalTargetUpdate_after_update(w, i, n) ==
    LET w1 == TrainingExtension_after_update(w, i, n)
        l  == w1.training[i]
    IN  IF n % l.target_update_frequency = 0
        THEN Log([w1 EXCEPT !.params =
                      copy_network_parameters(w1.params, l.src, l.dst, l.tau)],
                 Ev("sync", i, n))
        ELSE w1

\* Dynamic dispatch on the class of layer i
setup_experience(w, i) ==
    IF w.training[i].kind = "Training"
    THEN Training_setup_experience(w, i)
    ELSE TrainingExtension_setup_experience(w, i)

before_update(w, i, n) ==
    IF w.training[i].kind = "Training"
    THEN Training_before_update(w, i, n)
    ELSE TrainingExtension_before_update(w, i, n)

after_update(w, i, n) ==
    CASE w.training[i].kind = "Training" -> Training_after_update(w, i, n)
      [] w.training[i].kind = "TrainingExtension" ->
             TrainingExtension_after_update(w, i, n)
      [] OTHER -> PeriodicalTargetUpdate_after_update(w, i, n)

---------------------------------------------------------------------------
(* Model and solver.  A model's parameters are the entries of the store    *)
(* under its scope name; a solver holds the set of scopes whose parameters *)
(* were handed to set_parameters and update() moves exactly those.         *)
\* Mutant: the parameters of every scope, not only the model's own
Model_get_parameters_Unscoped(p, scope_name) == DOMAIN p

Model_get_parameters(p, scope_name) == {scope_name} \cap DOMAIN p

\* solver.update() of every solver of the trainer: each bound parameter
\* takes the value g the gradient step produces.
Solvers_bound(solvers) == UNION {solvers[k] : k \in DOMAIN solvers}

Solvers_update(p, solvers, g) ==
    [s \in DOMAIN p |-> IF s \in Solvers_bound(solvers) THEN g ELSE p[s]]

---------------------------------------------------------------------------
(* ModelTrainer                                                            *)
NoModels == <<>>            \* self._models = None
NoSolvers == [k \in {} |-> {}]
NoVariables == 0            \* self._training_variables = None

ModelTrainer_init ==
    [_models |-> NoModels, _solvers |-> NoSolvers, _train_count |-> 0,
     _training |-> <<>>, _training_variables |-> NoVariables]

\* x: the trainer (self), the parameter store and the events so far
Ctx(self, p) == [self |-> self, training |-> self._training, params |-> p,
                 trace |-> <<>>, written |-> {}, raised |-> "none"]

\* TrainingVariables of the given batch size (its batch_size property)
ModelTrainer_setup_training_variables(batch_size) == batch_size

ModelTrainer_build_training_graph(x) ==
    Log(x, Ev("build_training_graph", 0, x.self._training_variables))

ModelTrainer_setup_solver(self, p) ==
    [k \in DOMAIN self._solvers |->
        IF \E i \in DOMAIN self._models : self._models[i] = k
        THEN Model_get_parameters(p, k)
        ELSE self._solvers[k]]

\* setup_training(models, solvers, training); solver_keys are the keys of
\* the solvers dictionary.
ModelTrainer_setup_training(self, p, models, solver_keys, training) ==
    LET s1 == [self EXCEPT !._models = models,
                           !._solvers = [k \in solver_keys |-> {}],
                           !._training = training,
                           !._training_variables =
                               ModelTrainer_setup_training_variables(1)]
        x1 == Log(Ctx(s1, p), Ev("setup_training_variables", 0, 1))
        x2 == ModelTrainer_build_training_graph(x1)
    IN  [x2 EXCEPT !.self._solvers = ModelTrainer_setup_solver(s1, p)]

\* _update_model: bind the batch, zero_grad, forward, backward, update
ModelTrainer_update_model(x, g) ==
    [Log(x, Ev("update_model", 0, x.self._train_count))
        EXCEPT !.params = Solvers_update(x.params, x.self._solvers, g),
               !.written = @ \cup Solvers_bound(x.self._solvers)]

\* Mutant: reallocates only when the batch grows
ModelTrainer_rebind_GrowOnly(x, new_batch_size) ==
    LET prev_batch_size == x.self._training_variables
    IN  IF new_batch_size > prev_batch_size
        THEN ModelTrainer_build_training_graph(
                 Log([x EXCEPT !.self._training_variables =
                          ModelTrainer_setup_training_variables(new_batch_size)],
                     Ev("setup_training_variables", 0, new_batch_size)))
        ELSE x

\* train(), lines 54-58: reallocate and rebuild when the batch size changed
ModelTrainer_rebind(x, new_batch_size) ==
    LET prev_batch_size == x.self._training_variables
    IN  IF new_batch_size # prev_batch_size
        THEN ModelTrainer_build_training_graph(
                 Log([x EXCEPT !.self._training_variables =
                          ModelTrainer_setup_training_variables(new_batch_size)],
                     Ev("setup_training_variables", 0, new_batch_size)))
        ELSE x

\* Mutant: after_update called before the model update
ModelTrainer_update_AfterFirst(x, g) ==
    LET n  == x.self._train_count
        x1 == before_update(x, 1, n)
        x2 == after_update(x1, 1, n)
    IN  ModelTrainer_update_model(x2, g)

\* train(), lines 60-62: the hooks around the model update
ModelTrainer_update(x, g) ==
    LET n  == x.self._train_count
        x1 == before_update(x, 1, n)
        x2 == ModelTrainer_update_model(x1, g)
    IN  after_update(x2, 1, n)

\* Mutant: the train count is incremented before the guard
ModelTrainer_train_CountFirst(self, p, batch_size, g) ==
    LET s1 == [self EXCEPT !._train_count = @ + 1]
    IN  IF self._models = NoModels
        THEN [Ctx(s1, p) EXCEPT !.raised = "RuntimeError"]
        ELSE LET x1 == setup_experience(Ctx(s1, p), 1)
                 x2 == ModelTrainer_rebind(x1, batch_size)
                 x3 == ModelTrainer_update(x2, g)
             IN  [x3 EXCEPT !.self._training = x3.training]

\* Mutant: the train count is incremented after the hooks have used it
ModelTrainer_train_CountLast(self, p, batch_size, g) ==
    IF self._models = NoModels
    THEN [Ctx(self, p) EXCEPT !.raised = "RuntimeError"]
    ELSE LET x1 == setup_experience(Ctx(self, p), 1)
             x2 == ModelTrainer_rebind(x1, batch_size)
             x3 == ModelTrainer_update(x2, g)
         IN  [x3 EXCEPT !.self._training = x3.training,
                        !.self._train_count = @ + 1]

\* train(experience) with an experience of batch_size rows
ModelTrainer_train(self, p, batch_size, g) ==
    IF self._models = NoModels
    THEN [Ctx(self, p) EXCEPT !.raised = "RuntimeError"]
    ELSE LET x0 == Ctx([self EXCEPT !._train_count = @ + 1], p)
             x1 == setup_experience(x0, 1)
             x2 == ModelTrainer_rebind(x1, batch_size)
             x3 == ModelTrainer_update(x2, g)
         IN  [x3 EXCEPT !.self._training = x3.training]

---------------------------------------------------------------------------
(* What an operation leaves behind for the properties to look at           *)
NoCall ==
    [op |-> "none", trainer |-> "none", was_setup |-> FALSE, raised |-> "none",
     trace |-> <<>>, batch |-> 0, prev_batch |-> 0, g |-> 0, ord |-> 0,
     pre |-> <<>>, pre_count |-> 0, calls |-> <<>>]

NoConfig == [d |-> 0, tau |-> 0, batch_size |-> 0]

IdleDDQN == [stage |-> "idle"]
IdleC51  == [stage |-> "idle"]
IdleTRPO == [stage |-> "idle"]
IdleAlgo == [stage |-> "idle"]
IdleDiag == [stage |-> "idle"]
IdleScope == [stage |-> "idle"]
IdleBCQ == [stage |-> "idle"]
IdleOnline == [stage |-> "idle"]

---------------------------------------------------------------------------
(* One trainer wired the way the algorithms wire their Q-function trainer: *)
(* a Training, optionally wrapped in extensions, synchronising target_q    *)
(* from q; setup_training, then the initial copy of q to target_q.         *)
QTrainer == "q_function_trainer"

Chains(src, dst, f, t) ==
    { <<PlainTraining>>,
      <<PlainExtension, PlainTraining>>,
      <<PeriodicalTargetUpdate(src, dst, f, t), PlainTraining>>,
      <<PlainExtension, PeriodicalTargetUpdate(src, dst, f, t), PlainTraining>>,
      <<PeriodicalTargetUpdate(src, dst, f, t), PlainExtension, PlainTraining>> }

Init ==
    /\ trainers = [t \in {QTrainer} |-> ModelTrainer_init]
    /\ params \in [{"q", "target_q"} -> ParamVals]
    /\ call = NoCall
    /\ bcq = IdleBCQ
    /\ online = IdleOnline
    /\ iteration_num = 0
    /\ ncalls = [t \in {QTrainer} |-> 0]
    /\ config = NoConfig
    /\ ddqn = IdleDDQN
    /\ c51 = IdleC51
    /\ trpo = IdleTRPO
    /\ algo = IdleAlgo
    /\ diag = IdleDiag
    /\ scope = IdleScope

\* _setup_q_function_training: build the training, setup_training, copy
SetupQ ==
    /\ trainers[QTrainer]._models = NoModels
    /\ \E f \in Freqs, t \in Taus :
       \E training \in Chains(<<"q">>, <<"target_q">>, f, t) :
         \E x \in {ModelTrainer_setup_training(trainers[QTrainer], params,
                                                <<"q">>, {"q"}, training)} :
             /\ trainers' = [trainers EXCEPT ![QTrainer] = x.self]
             /\ params' = copy_network_parameters(x.params, <<"q">>,
                                                  <<"target_q">>, TauDen)
             /\ call' = [NoCall EXCEPT !.op = "setup", !.trainer = QTrainer,
                                       !.trace = x.trace, !.pre = params]
    /\ UNCHANGED <<iteration_num, ncalls, config, ddqn, c51,
                 trpo, algo, diag, scope, bcq, online>>

\* q_function_trainer.train(batch) with a batch of b rows; the gradient
\* step leaves the value g in the trained parameters
TrainQ ==
    /\ ncalls[QTrainer] < MaxTrain
    /\ \E b \in BatchSizes, g \in ParamVals :
         \E self \in {trainers[QTrainer]} :
         \E x \in {ModelTrainer_train(self, params, b, g)} :
         \E ok \in {x.raised = "none"} :
             /\ trainers' = [trainers EXCEPT ![QTrainer] = x.self]
             /\ params' = x.params
             /\ ncalls' = [ncalls EXCEPT ![QTrainer] = IF ok THEN @ + 1 ELSE @]
             /\ call' = [NoCall EXCEPT
                            !.op = "train", !.trainer = QTrainer,
                            !.was_setup = (self._models # NoModels),
                            !.raised = x.raised, !.trace = x.trace,
                            !.batch = b, !.prev_batch = self._training_variables,
                            !.g = g,
                            !.ord = IF ok THEN ncalls[QTrainer] + 1 ELSE 0,
                            !.pre = params, !.pre_count = self._train_count]
    /\ UNCHANGED <<iteration_num, config, ddqn, c51,
                 trpo, algo, diag, scope, bcq, online>>

Next == SetupQ \/ TrainQ

Spec == Init /\ [][Next]_vars

---------------------------------------------------------------------------
(* Properties of ModelTrainer.train and of the periodic target update      *)
LastTrainer == trainers[call.trainer]

TrainFailedBeforeSetup == call.op = "train" /\ ~call.was_setup

TrainDone == call.op = "train" /\ call.was_setup

\* The layers of a training that are periodic target updates
TargetUpdateLayers(training) ==
    {i \in DOMAIN training : training[i].kind = "PeriodicalTargetUpdate"}

\* C1: train() on a trainer that was never set up raises RuntimeError; the
\* failed call invokes no hook (setup_experience, before_update,
\* after_update), performs no model update, and leaves _train_count and the
\* parameters as they were.
C1_TrainBeforeSetupRaises ==
    TrainFailedBeforeSetup =>
        /\ call.raised = "RuntimeError"
        /\ call.trace = <<>>
        /\ params = call.pre
        /\ LastTrainer._train_count = call.pre_count
        /\ LastTrainer = ModelTrainer_init

C1_Witness ==
    /\ TrainFailedBeforeSetup
    /\ call.raised = "RuntimeError"
    /\ call.batch = MaxBatch

\* C2: the variables are first allocated at batch size 1; a train() call
\* whose batch size differs from the allocated one allocates variables of the
\* new size and then rebuilds the graph, both before the model update; a call
\* with the allocated size does neither; no call fails, and after every call
\* the allocated batch size is the call's batch size.
C2_RebindOnBatchSizeChange ==
    /\ call.op = "setup" => LastTrainer._training_variables = 1
    /\ TrainDone =>
        LET t == call.trace
            alloc == {i \in DOMAIN t : t[i].op = "setup_training_variables"}
            build == {i \in DOMAIN t : t[i].op = "build_training_graph"}
            upd   == {i \in DOMAIN t : t[i].op = "update_model"}
        IN  /\ call.raised = "none"
            /\ upd # {}
            /\ LastTrainer._training_variables = call.batch
            /\ IF call.batch # call.prev_batch
               THEN /\ Cardinality(alloc) = 1
                    /\ Cardinality(build) = 1
                    /\ \A i \in alloc, j \in build, k \in upd :
                          /\ t[i].n = call.batch
                          /\ t[j].n = call.batch
                          /\ i < j
                          /\ j < k
               ELSE alloc = {} /\ build = {}

C2_Witness ==
    /\ TrainDone
    /\ call.prev_batch = MaxBatch
    /\ call.batch = 1
    /\ LastTrainer._train_count >= 2

\* C3: a successful train() runs before_update(n), the model update and
\* after_update(n), in this order and once each, with n the train count of
\* the call; every layer of the training, the innermost included, receives
\* the same two hook calls in that order with that n.
C3_HookOrder ==
    TrainDone =>
        LET t == call.trace
            n == call.pre_count + 1
            upd == Positions(t, "update_model", 0)
        IN  /\ call.raised = "none"
            /\ LastTrainer._train_count = n
            /\ Cardinality(upd) = 1
            /\ \A i \in DOMAIN LastTrainer._training :
                 LET b == Positions(t, "before_update", i)
                     a == Positions(t, "after_update", i)
                 IN  /\ Cardinality(b) = 1
                     /\ Cardinality(a) = 1
                     /\ \A pb \in b, pu \in upd, pa \in a :
                          /\ pb < pu
                          /\ pu < pa
                          /\ t[pb].n = n
                          /\ t[pa].n = n
                          /\ t[pu].n = n

C3_Witness ==
    /\ TrainDone
    /\ Len(LastTrainer._training) = 3
    /\ LastTrainer._train_count = 2

\* C4: with a periodic target update of frequency 1 and tau = 1, after every
\* train() call the target parameters equal the source parameters.
C4_HardSyncEveryCall ==
    (/\ TrainDone
     /\ \E i \in TargetUpdateLayers(LastTrainer._training) :
          /\ LastTrainer._training[i].target_update_frequency = 1
          /\ LastTrainer._training[i].tau = TauDen)
    => params["target_q"] = params["q"]

C4_Witness ==
    /\ TrainDone
    /\ \E i \in TargetUpdateLayers(LastTrainer._training) :
          /\ LastTrainer._training[i].target_update_frequency = 1
          /\ LastTrainer._training[i].tau = TauDen
    /\ params["target_q"] # call.pre["target_q"]
    /\ params["q"] # call.pre["q"]
    /\ LastTrainer._train_count >= 2

\* C5: with a periodic target update of frequency f, the copy
\* dst = tau*src + (1-tau)*dst happens, once and after the model update, in
\* the after_update of exactly the train() calls whose ordinal is a multiple
\* of f; every other call leaves the target parameters unchanged.
C5_SyncEveryFthCall ==
    TrainDone =>
        \A i \in TargetUpdateLayers(LastTrainer._training) :
            LET l == LastTrainer._training[i]
                t == call.trace
                sync == Positions(t, "sync", i)
            IN  /\ (sync # {}) <=> (call.ord % l.target_update_frequency = 0)
                /\ Cardinality(sync) <= 1
                /\ \A ps \in sync :
                      /\ \A pu \in Positions(t, "update_model", 0) : pu < ps
                      /\ \A pa \in Positions(t, "after_update", i) : pa < ps
                /\ sync = {} => params["target_q"] = call.pre["target_q"]
                /\ sync # {} => params["target_q"] =
                       SoftUpdate(params["q"], call.pre["target_q"], l.tau)

C5_Witness ==
    /\ TrainDone
    /\ \E i \in TargetUpdateLayers(LastTrainer._training) :
          /\ LastTrainer._training[i].target_update_frequency = 2
          /\ LastTrainer._training[i].tau = 1
          /\ Positions(call.trace, "sync", i) # {}
    /\ call.ord = 4
    /\ params["target_q"] # call.pre["target_q"]

C5_WitnessNoSync ==
    /\ TrainDone
    /\ \E i \in TargetUpdateLayers(LastTrainer._training) :
          /\ LastTrainer._training[i].target_update_frequency = 2
          /\ Positions(call.trace, "sync", i) = {}
    /\ call.ord = 3
    /\ params["q"] # call.pre["q"]

---------------------------------------------------------------------------
(* TD3: two trainers over pi, q1, q2 and their target copies               *)
PolicyTrainer == "policy_trainer"

TD3Trainers == {QTrainer, PolicyTrainer}

TargetOf(scope_name) ==
    CASE scope_name = "pi" -> "target_pi"
      [] scope_name = "q1" -> "target_q1"
      [] scope_name = "q2" -> "target_q2"
      [] scope_name = "q"  -> "target_q"

TD3TrainQ  == <<"q1", "q2">>
TD3TargetQ == <<"target_q1", "target_q2">>
TD3Targets == {"target_pi", "target_q1", "target_q2"}
TD3Scopes  == {"pi", "q1", "q2"} \cup TD3Targets

\* One train() call of an iteration, as the properties see it
CallRecord(name, x, g) ==
    [trainer |-> name, n |-> x.self._train_count, trace |-> x.trace,
     written |-> x.written, raised |-> x.raised, g |-> g]

\* model.deepcopy('target_' + scope_name): the copy holds the values of the
\* parameters of the model at the time of the call
TD3_deepcopy(p, scope_name) ==
    [p EXCEPT ![TargetOf(scope_name)] = p[scope_name]]

\* TD3.__init__: d and tau of TD3Param (both checked in __post_init__), the
\* models and their target copies; no trainer exists yet.
TD3Init ==
    /\ config \in [d : Freqs, tau : Taus, batch_size : {MaxBatch}]
    /\ trainers = [t \in TD3Trainers |-> ModelTrainer_init]
    /\ \E pi, q1, q2 \in ParamVals :
         params = TD3_deepcopy(TD3_deepcopy(TD3_deepcopy(
                      [s \in TD3Scopes |-> CASE s = "pi" -> pi [] s = "q1" -> q1
                                             [] s = "q2" -> q2 [] OTHER -> 0],
                      "pi"), "q1"), "q2")
    /\ call = NoCall
    /\ bcq = IdleBCQ
    /\ online = IdleOnline
    /\ iteration_num \in {0, 1}
    /\ ncalls = [t \in TD3Trainers |-> 0]
    /\ ddqn = IdleDDQN
    /\ c51 = IdleC51
    /\ trpo = IdleTRPO
    /\ algo = IdleAlgo
    /\ diag = IdleDiag
    /\ scope = IdleScope

\* _setup_q_function_training
TD3_setup_q_function_training(p) ==
    LET training == <<PeriodicalTargetUpdate(TD3TrainQ, TD3TargetQ,
                                             config.d, config.tau),
                      PlainTraining>>
        x == ModelTrainer_setup_training(ModelTrainer_init, p, TD3TrainQ,
                                         {"q1", "q2"}, training)
    IN  [x EXCEPT !.params =
            copy_network_parameters(x.params, TD3TrainQ, TD3TargetQ, TauDen)]

\* _setup_policy_training
TD3_setup_policy_training(p) ==
    LET training == <<PeriodicalTargetUpdate(<<"pi">>, <<"target_pi">>,
                                             1, config.tau),
                      PlainTraining>>
        x == ModelTrainer_setup_training(ModelTrainer_init, p, <<"pi">>,
                                         {"pi"}, training)
    IN  [x EXCEPT !.params =
            copy_network_parameters(x.params, <<"pi">>, <<"target_pi">>, TauDen)]

\* _before_training_start
TD3Setup ==
    /\ trainers[QTrainer]._models = NoModels
    /\ \E xq \in {TD3_setup_q_function_training(params)} :
       \E xp \in {TD3_setup_policy_training(xq.params)} :
           /\ trainers' = [trainers EXCEPT ![QTrainer] = xq.self,
                                           ![PolicyTrainer] = xp.self]
           /\ params' = xp.params
           /\ call' = [NoCall EXCEPT !.op = "setup",
                                     !.pre = Restrict(params, TD3Targets),
                                     !.trace = xq.trace \o xp.trace]
    /\ UNCHANGED <<iteration_num, ncalls, config, ddqn, c51,
                 trpo, algo, diag, scope, bcq, online>>

\* _td3_training: the sequence of train() calls of one iteration.  gs are
\* the values the three gradient steps produce.
TD3_td3_training(ts, p, b, gs) ==
    LET xq  == ModelTrainer_train(ts[QTrainer], p, b, gs[1])
        xp1 == ModelTrainer_train(ts[PolicyTrainer], xq.params, b, gs[2])
        actor == iteration_num % config.d = 0
        xp2 == ModelTrainer_train(xp1.self, xp1.params, b, gs[3])
    IN  [trainers |-> [ts EXCEPT ![QTrainer] = xq.self,
                                 ![PolicyTrainer] =
                                     IF actor THEN xp2.self ELSE xp1.self],
         params |-> IF actor THEN xp2.params ELSE xp1.params,
         calls |-> <<CallRecord(QTrainer, xq, gs[1]),
                     CallRecord(PolicyTrainer, xp1, gs[2])>>
                   \o (IF actor THEN <<CallRecord(PolicyTrainer, xp2, gs[3])>>
                       ELSE <<>>)]

\* _run_offline_training_iteration, then the loop's iteration_num += 1
TD3Iteration ==
    /\ trainers[QTrainer]._models # NoModels
    /\ iteration_num < MaxIter
    /\ \E b \in {config.batch_size},
          gs \in {h \in [1..3 -> ParamVals] :
                     iteration_num % config.d # 0 => h[3] = h[2]} :
         \E r \in {TD3_td3_training(trainers, params, b, gs)} :
             /\ trainers' = r.trainers
             /\ params' = r.params
             /\ call' = [NoCall EXCEPT !.op = "iteration",
                                       !.pre = Restrict(params, TD3Targets),
                                       !.batch = b, !.ord = iteration_num,
                                       !.calls = r.calls]
             /\ ncalls' = [t \in TD3Trainers |-> ncalls[t] +
                    Cardinality({i \in DOMAIN r.calls : r.calls[i].trainer = t})]
    /\ iteration_num' = iteration_num + 1
    /\ UNCHANGED <<config, ddqn, c51,
                 trpo, algo, diag, scope, bcq, online>>

TD3Next == TD3Setup \/ TD3Iteration

SpecTD3 == TD3Init /\ [][TD3Next]_vars

---------------------------------------------------------------------------
(* Properties of the TD3 wiring                                            *)

\* The target values after the calls k.. of an iteration when nothing but
\* the synchronisations recorded in the calls' traces touches them: cur are
\* the targets before call k; a synchronisation of call c mixes in the
\* value c.g that c's gradient step left in the source.
RECURSIVE ReplaySyncs(_, _, _)
ReplaySyncs(cur, calls, k) ==
    IF k > Len(calls) THEN cur
    ELSE LET c == calls[k]
             training == trainers[c.trainer]._training
             synced == {i \in TargetUpdateLayers(training) :
                           Positions(c.trace, "sync", i) # {}}
             store == [s \in TD3Scopes |->
                          IF s \in TD3Targets THEN cur[s] ELSE c.g]
             after == IF synced = {} THEN store
                      ELSE LET l == training[CHOOSE i \in synced : TRUE]
                           IN  copy_network_parameters(store, l.src, l.dst, l.tau)
         IN  ReplaySyncs(Restrict(after, TD3Targets), calls, k + 1)

\* C6: in TD3 no parameter of target_q1, target_q2, target_pi is bound to a
\* solver, none is written by a gradient step (solver.update), and over every
\* iteration the targets take exactly the values the scheduled
\* synchronisations of that iteration give them; apart from those they change
\* only in the copy at trainer setup.
C6_TargetsOnlySynchronised ==
    /\ \A t \in DOMAIN trainers :
          Solvers_bound(trainers[t]._solvers) \cap TD3Targets = {}
    /\ \A i \in DOMAIN call.calls :
          call.calls[i].written \cap TD3Targets = {}
    /\ call.op = "iteration" =>
          Restrict(params, TD3Targets) = ReplaySyncs(call.pre, call.calls, 1)
    /\ call.op = "setup" =>
          \A s \in {"pi", "q1", "q2"} : params[TargetOf(s)] = params[s]

C6_Witness ==
    /\ call.op = "iteration"
    /\ Len(call.calls) = 3
    /\ \A i \in 1..3 : call.calls[i].written # {}
    /\ params["target_q1"] # call.pre["target_q1"]
    /\ params["target_pi"] # call.pre["target_pi"]
    /\ params["target_pi"] # params["pi"]
    /\ iteration_num = MaxIter

---------------------------------------------------------------------------
(* The categorical (C51) target of _ValueDistributionFunctionDDQNTraining, *)
(* for one sample of the batch.  Rows are functions on 0..N-1.             *)
Atoms(N) == 0..(N - 1)

Zeros(N) == [k \in Atoms(N) |-> RInt(0)]

\* NF.scatter_add(x0, indices, updates, axis=-1): x0 with updates[i] added
\* at indices[i], the atoms taken from i on
RECURSIVE ScatterAddFrom(_, _, _, _)
ScatterAddFrom(x0, indices, updates, i) ==
    IF i \notin DOMAIN indices THEN x0
    ELSE ScatterAddFrom(
             IF indices[i] \in DOMAIN x0
             THEN [x0 EXCEPT ![indices[i]] = RAdd(@, updates[i])]
             ELSE x0,
             indices, updates, i + 1)

scatter_add(x0, indices, updates) == ScatterAddFrom(x0, indices, updates, 0)

\* Mutant: without the patch upper = 1 + lower (the weight of the lower bin
\* is ceil(b) - b)
C51_compute_projection_NoPatch(Tz, pj, N, v_max, v_min) ==
    LET delta_z == RDiv(RSub(v_max, v_min), RInt(N - 1))
        bj == [i \in Atoms(N) |->
                  RClip(RDiv(RSub(Tz[i], v_min), delta_z), RInt(0), RInt(N - 1))]
        lower == [i \in Atoms(N) |-> RFloor(bj[i])]
        upper == [i \in Atoms(N) |-> RCeil(bj[i])]
        wl == [i \in Atoms(N) |-> RSub(RInt(upper[i]), bj[i])]
        wu == [i \in Atoms(N) |-> RSub(bj[i], RInt(lower[i]))]
        result_upper == scatter_add(Zeros(N), lower,
                                    [i \in Atoms(N) |-> RMul(pj[i], wl[i])])
        result_lower == scatter_add(Zeros(N), upper,
                                    [i \in Atoms(N) |-> RMul(pj[i], wu[i])])
    IN  [bj |-> bj, ml_indices |-> lower, mu_indices |-> upper,
         wl |-> wl, wu |-> wu,
         mi |-> [k \in Atoms(N) |-> RAdd(result_upper[k], result_lower[k])]]

\* Mutant: the patch upper = 1 + lower made before mu_indices is taken
C51_compute_projection_PatchedIndex(Tz, pj, N, v_max, v_min) ==
    LET delta_z == RDiv(RSub(v_max, v_min), RInt(N - 1))
        bj == [i \in Atoms(N) |->
                  RClip(RDiv(RSub(Tz[i], v_min), delta_z), RInt(0), RInt(N - 1))]
        lower == [i \in Atoms(N) |-> RFloor(bj[i])]
        upper == [i \in Atoms(N) |-> 1 + lower[i]]
        wl == [i \in Atoms(N) |-> RSub(RInt(upper[i]), bj[i])]
        wu == [i \in Atoms(N) |-> RSub(bj[i], RInt(lower[i]))]
        result_upper == scatter_add(Zeros(N), lower,
                                    [i \in Atoms(N) |-> RMul(pj[i], wl[i])])
        result_lower == scatter_add(Zeros(N), upper,
                                    [i \in Atoms(N) |-> RMul(pj[i], wu[i])])
    IN  [bj |-> bj, ml_indices |-> lower, mu_indices |-> upper,
         wl |-> wl, wu |-> wu,
         mi |-> [k \in Atoms(N) |-> RAdd(result_upper[k], result_lower[k])]]

\* _compute_projection(Tz, pj, N, v_max, v_min); besides the result mi the
\* record keeps the intermediate rows
C51_compute_projection(Tz, pj, N, v_max, v_min) ==
    LET delta_z == RDiv(RSub(v_max, v_min), RInt(N - 1))
        bj == [i \in Atoms(N) |->
                  RClip(RDiv(RSub(Tz[i], v_min), delta_z), RInt(0), RInt(N - 1))]
        lower == [i \in Atoms(N) |-> RFloor(bj[i])]
        upper == [i \in Atoms(N) |-> RCeil(bj[i])]
        ml_indices == lower
        mu_indices == upper
        upper1 == [i \in Atoms(N) |-> 1 + lower[i]]
        wl == [i \in Atoms(N) |-> RSub(RInt(upper1[i]), bj[i])]
        wu == [i \in Atoms(N) |-> RSub(bj[i], RInt(lower[i]))]
        result_upper == scatter_add(Zeros(N), ml_indices,
                                    [i \in Atoms(N) |-> RMul(pj[i], wl[i])])
        result_lower == scatter_add(Zeros(N), mu_indices,
                                    [i \in Atoms(N) |-> RMul(pj[i], wu[i])])
    IN  [bj |-> bj, ml_indices |-> ml_indices, mu_indices |-> mu_indices,
         wl |-> wl, wu |-> wu,
         mi |-> [k \in Atoms(N) |-> RAdd(result_upper[k], result_lower[k])]]

\* Mutant: the bootstrap term is not masked by non_terminal
C51_target_atoms_NoMask(reward, gamma, non_terminal, N, v_max, v_min) ==
    LET delta_z == RDiv(RSub(v_max, v_min), RInt(N - 1))
        z == [i \in Atoms(N) |-> RAdd(v_min, RMul(RInt(i), delta_z))]
        target == [i \in Atoms(N) |-> RAdd(reward, RMul(gamma, z[i]))]
    IN  [i \in Atoms(N) |-> RClip(target[i], v_min, v_max)]

\* compute_target, lines 49-55: the clipped target atoms Tz
C51_target_atoms(reward, gamma, non_terminal, N, v_max, v_min) ==
    LET delta_z == RDiv(RSub(v_max, v_min), RInt(N - 1))
        z == [i \in Atoms(N) |-> RAdd(v_min, RMul(RInt(i), delta_z))]
        target == [i \in Atoms(N) |->
                      RAdd(reward, RMul(RMul(RInt(non_terminal), gamma), z[i]))]
    IN  [i \in Atoms(N) |-> RClip(target[i], v_min, v_max)]

\* Mutant: neither the target atoms nor the bin indices are clipped
C51_compute_target_Unclipped(in) ==
    LET N == in.N
        delta_z == RDiv(RSub(in.v_max, in.v_min), RInt(N - 1))
        z == [i \in Atoms(N) |-> RAdd(in.v_min, RMul(RInt(i), delta_z))]
        Tz == [i \in Atoms(N) |->
                  RAdd(in.reward, RMul(RMul(RInt(in.non_terminal), in.gamma), z[i]))]
        bj == [i \in Atoms(N) |-> RDiv(RSub(Tz[i], in.v_min), delta_z)]
        lower == [i \in Atoms(N) |-> RFloor(bj[i])]
        upper == [i \in Atoms(N) |-> RCeil(bj[i])]
        wl == [i \in Atoms(N) |-> RSub(RInt(1 + lower[i]), bj[i])]
        wu == [i \in Atoms(N) |-> RSub(bj[i], RInt(lower[i]))]
        result_upper == scatter_add(Zeros(N), lower,
                                    [i \in Atoms(N) |-> RMul(in.pj[i], wl[i])])
        result_lower == scatter_add(Zeros(N), upper,
                                    [i \in Atoms(N) |-> RMul(in.pj[i], wu[i])])
    IN  [stage |-> "done", in |-> in, Tz |-> Tz, bj |-> bj,
         ml_indices |-> lower, mu_indices |-> upper, wl |-> wl, wu |-> wu,
         mi |-> [k \in Atoms(N) |-> RAdd(result_upper[k], result_lower[k])]]

\* compute_target for one sample; pj are the target network's atom
\* probabilities of the action the train network selects
C51_compute_target(in) ==
    LET Tz == C51_target_atoms(in.reward, in.gamma, in.non_terminal,
                               in.N, in.v_max, in.v_min)
        pr == C51_compute_projection(Tz, in.pj, in.N, in.v_max, in.v_min)
    IN  [stage |-> "done", in |-> in, Tz |-> Tz, bj |-> pr.bj,
         ml_indices |-> pr.ml_indices, mu_indices |-> pr.mu_indices,
         wl |-> pr.wl, wu |-> pr.wu, mi |-> pr.mi]

\* The rows of N probabilities k/Mass that sum to 1
Distributions(N) ==
    {[i \in Atoms(N) |-> Rat(c[i], Mass)] :
        c \in {d \in [Atoms(N) -> 0..Mass] : RSum([i \in Atoms(N) |-> RInt(d[i])])
                                               = RInt(Mass)}}

C51Inputs ==
    UNION {[N : {N}, v_min : {RInt(lo)}, v_max : {RInt(hi)},
            reward : {Rat(k, RewardDen) : k \in -MaxRewardNum..MaxRewardNum},
            gamma : {Rat(k, GammaDen) : k \in 0..GammaDen},
            non_terminal : {0, 1},
            pj : Distributions(N)] :
           N \in 2..MaxAtoms, lo \in -MaxV..MaxV, hi \in -MaxV..MaxV}

C51Init ==
    /\ c51 \in {[stage |-> "input", in |-> in] :
                   in \in {i \in C51Inputs : ~RLe(i.v_max, i.v_min)}}
    /\ trainers = <<>>
    /\ params = <<>>
    /\ call = NoCall
    /\ bcq = IdleBCQ
    /\ online = IdleOnline
    /\ iteration_num = 0
    /\ ncalls = <<>>
    /\ config = NoConfig
    /\ ddqn = IdleDDQN
    /\ trpo = IdleTRPO
    /\ algo = IdleAlgo
    /\ diag = IdleDiag
    /\ scope = IdleScope

C51ComputeTarget ==
    /\ c51.stage = "input"
    /\ c51' = C51_compute_target(c51.in)
    /\ UNCHANGED <<trainers, params, call, iteration_num, ncalls, config, ddqn,
                 trpo, algo, diag, scope, bcq, online>>

C51Next == C51ComputeTarget

SpecC51 == C51Init /\ [][C51Next]_vars

---------------------------------------------------------------------------
(* Properties of the C51 projection                                        *)
C51Done == c51.stage = "done"

\* The bin index of a single value v: (clip(v) - v_min) / delta_z
BinOf(v, in) ==
    RDiv(RSub(RClip(v, in.v_min, in.v_max), in.v_min),
         RDiv(RSub(in.v_max, in.v_min), RInt(in.N - 1)))

\* C8: for every reward, gamma in [0,1], non_terminal in {0,1},
\* v_min < v_max, N >= 2 and every pj that sums to 1, the projected
\* distribution sums to 1.
C8_ProjectionSumsToOne ==
    C51Done => (RSum(c51.in.pj) = RInt(1) => RSum(c51.mi) = RInt(1))

C8_Witness ==
    /\ C51Done
    /\ RSum(c51.in.pj) = RInt(1)
    /\ c51.in.N = MaxAtoms
    /\ c51.in.non_terminal = 1
    /\ c51.in.gamma = Rat(1, GammaDen)
    /\ \E i \in Atoms(c51.in.N) : ~RIsInt(c51.bj[i]) /\ c51.in.pj[i] # RInt(0)
    /\ \E i \in Atoms(c51.in.N) : RIsInt(c51.bj[i]) /\ c51.in.pj[i] # RInt(0)
    /\ \E i \in Atoms(c51.in.N) : c51.Tz[i] = c51.in.v_max
    /\ RSum(c51.mi) = RInt(1)

\* C9: when the bin index b of an atom is an exact integer (0 and N-1
\* included), the atom's whole probability goes to bin b once: the index of
\* the lower bin is b and its weight 1, the weight of the upper neighbour is
\* 0, both indices lie in 0..N-1; when every atom's index is integral, bin k
\* receives exactly the probabilities of the atoms whose index is k.
C9_ExactBinKeepsMass ==
    C51Done =>
        LET N == c51.in.N
            integral == {i \in Atoms(N) : RIsInt(c51.bj[i])}
        IN  /\ \A i \in integral :
                  /\ RInt(c51.ml_indices[i]) = c51.bj[i]
                  /\ c51.wl[i] = RInt(1)
                  /\ c51.wu[i] = RInt(0)
                  /\ c51.ml_indices[i] \in Atoms(N)
                  /\ c51.mu_indices[i] \in Atoms(N)
            /\ integral = Atoms(N) =>
                  \A k \in Atoms(N) :
                      c51.mi[k] = RSum([i \in Atoms(N) |->
                                          IF c51.bj[i] = RInt(k)
                                          THEN c51.in.pj[i] ELSE RInt(0)])

C9_Witness ==
    /\ C51Done
    /\ c51.in.N = MaxAtoms
    /\ \A i \in Atoms(c51.in.N) : c51.bj[i] = RInt(i)
    /\ c51.in.pj[0] # RInt(0)
    /\ c51.in.pj[c51.in.N - 1] # RInt(0)
    /\ c51.mi = c51.in.pj

\* C10: for a terminal transition (non_terminal = 0; reward = 0 in
\* particular) every target atom is clip(reward, v_min, v_max) whatever
\* gamma and z are, and the projection puts the whole mass on the two bins
\* next to b = (clip(reward) - v_min)/delta_z, split (1 + floor(b) - b) to
\* floor(b) and (b - floor(b)) to ceil(b): it depends on the reward alone.
C10_TerminalHasNoBootstrap ==
    (C51Done /\ c51.in.non_terminal = 0) =>
        LET in == c51.in
            b  == BinOf(in.reward, in)
        IN  /\ \A i \in Atoms(in.N) :
                  c51.Tz[i] = RClip(in.reward, in.v_min, in.v_max)
            /\ RSum(in.pj) = RInt(1) =>
                 c51.mi = [k \in Atoms(in.N) |->
                    RAdd(IF k = RFloor(b)
                         THEN RSub(RInt(1 + RFloor(b)), b) ELSE RInt(0),
                         IF k = RCeil(b)
                         THEN RSub(b, RInt(RFloor(b))) ELSE RInt(0))]

C10_Witness ==
    /\ C51Done
    /\ c51.in.non_terminal = 0
    /\ c51.in.reward = RInt(0)
    /\ c51.in.gamma = RInt(1)
    /\ c51.in.N = 2
    /\ c51.in.v_min = RInt(-MaxV)
    /\ c51.in.v_max = RInt(MaxV)
    /\ c51.in.pj[0] # RInt(0)
    /\ c51.in.pj[1] # RInt(0)
    /\ c51.mi[0] = Rat(1, 2)
    /\ c51.mi[1] = Rat(1, 2)

---------------------------------------------------------------------------
(* DDQNTraining and its double-Q target, for one sample of the batch.      *)
(* A model object has an identity, a class and, for a Q-function, its      *)
(* values q[a] at the next state.                                          *)
ModelClasses ==
    {"DQNQFunction", "TD3QFunction", "C51ValueDistributionFunction", "TD3Policy"}

IsQFunction(m) == m.cls \in {"DQNQFunction", "TD3QFunction"}

IsValueDistributionFunction(m) == m.cls = "C51ValueDistributionFunction"

Actions == 1..MaxAction

NoTable == [a \in Actions |-> 0]

\* q_function.argmax_q(s_next): the first action of greatest value
QFunction_argmax_q(m) ==
    CHOOSE a \in Actions :
        /\ \A o \in Actions : m.q[o] <= m.q[a]
        /\ \A o \in Actions : m.q[o] = m.q[a] => a <= o

\* q_function.q(s_next, a)
QFunction_q(m, a) == RInt(m.q[a])

\* DDQNTraining.__init__
DDQNTraining_init(train_function, target_function) ==
    IF train_function.cls # target_function.cls
    THEN [delegate |-> "none", raised |-> "ValueError"]
    ELSE IF /\ IsValueDistributionFunction(train_function)
            /\ IsValueDistributionFunction(target_function)
    THEN [delegate |-> "_ValueDistributionFunctionDDQNTraining", raised |-> "none"]
    ELSE IF IsQFunction(train_function) /\ IsQFunction(target_function)
    THEN [delegate |-> "_QFunctionDDQNTraining", raised |-> "none"]
    ELSE [delegate |-> "none", raised |-> "NotImplementedError"]

\* Mutant: the selected action is evaluated with the train function
QFunctionDDQNTraining_compute_target_SameModel(train_function, target_function, tv) ==
    LET a_next == QFunction_argmax_q(train_function)
        double_q_target == QFunction_q(train_function, a_next)
    IN  [calls |-> <<[model |-> train_function.id, method |-> "argmax_q"],
                     [model |-> train_function.id, method |-> "q"]>>,
         a_next |-> a_next,
         target |-> RAdd(tv.reward,
                         RMul(RMul(tv.gamma, RInt(tv.non_terminal)),
                              double_q_target))]

\* _QFunctionDDQNTraining.compute_target; calls lists the model methods it
\* invokes
QFunctionDDQNTraining_compute_target(train_function, target_function, tv) ==
    LET a_next == QFunction_argmax_q(train_function)
        double_q_target == QFunction_q(target_function, a_next)
    IN  [calls |-> <<[model |-> train_function.id, method |-> "argmax_q"],
                     [model |-> target_function.id, method |-> "q"]>>,
         a_next |-> a_next,
         target |-> RAdd(tv.reward,
                         RMul(RMul(tv.gamma, RInt(tv.non_terminal)),
                              double_q_target))]

\* The train model and the target model handed to DDQNTraining: two objects
\* (a target network is what Model.deepcopy returns, a new object).  Only a
\* pair of Q-functions of one class has its values drawn.
DDQNModels ==
    {[train |-> [id |-> 1, cls |-> c1, q |-> q1],
      target |-> [id |-> 2, cls |-> c2, q |-> q2]] :
        c1 \in ModelClasses, c2 \in ModelClasses,
        q1 \in [Actions -> 0..MaxQ], q2 \in [Actions -> 0..MaxQ]}

DDQNVariables ==
    [reward : {Rat(k, RewardDen) : k \in -MaxRewardNum..MaxRewardNum},
     gamma : {Rat(k, GammaDen) : k \in 0..GammaDen},
     non_terminal : {0, 1}]

NoVars == [reward |-> RInt(0), gamma |-> RInt(0), non_terminal |-> 0]

DDQNInit ==
    /\ \E m \in DDQNModels, tv \in DDQNVariables :
         LET same == m.train.cls = m.target.cls /\ IsQFunction(m.train)
         IN  /\ ~same => (m.train.q = NoTable /\ m.target.q = NoTable /\ tv = NoVars)
             /\ ddqn = [stage |-> "models", train |-> m.train,
                        target |-> m.target, tv |-> tv,
                        delegate |-> "none", raised |-> "none",
                        calls |-> <<>>, a_next |-> 0, result |-> RInt(0)]
    /\ trainers = <<>>
    /\ params = <<>>
    /\ call = NoCall
    /\ bcq = IdleBCQ
    /\ online = IdleOnline
    /\ iteration_num = 0
    /\ ncalls = <<>>
    /\ config = NoConfig
    /\ c51 = IdleC51
    /\ trpo = IdleTRPO
    /\ algo = IdleAlgo
    /\ diag = IdleDiag
    /\ scope = IdleScope

\* DDQNTraining(train_function, target_function)
DDQNConstruct ==
    /\ ddqn.stage = "models"
    /\ \E r \in {DDQNTraining_init(ddqn.train, ddqn.target)} :
         ddqn' = [ddqn EXCEPT !.stage = IF r.raised = "none" THEN "constructed"
                                        ELSE "raised",
                              !.delegate = r.delegate, !.raised = r.raised]
    /\ UNCHANGED <<trainers, params, call, iteration_num, ncalls, config, c51,
                 trpo, algo, diag, scope, bcq, online>>

\* training.compute_target(training_variables) of a Q-function pair (the
\* value-distribution delegate is the subject of SpecC51)
DDQNComputeTarget ==
    /\ ddqn.stage = "constructed"
    /\ ddqn.delegate = "_QFunctionDDQNTraining"
    /\ \E r \in {QFunctionDDQNTraining_compute_target(ddqn.train, ddqn.target,
                                                      ddqn.tv)} :
         ddqn' = [ddqn EXCEPT !.stage = "done", !.calls = r.calls,
                              !.a_next = r.a_next, !.result = r.target]
    /\ UNCHANGED <<trainers, params, call, iteration_num, ncalls, config, c51,
                 trpo, algo, diag, scope, bcq, online>>

DDQNNext == DDQNConstruct \/ DDQNComputeTarget

SpecDDQN == DDQNInit /\ [][DDQNNext]_vars

---------------------------------------------------------------------------
(* ICML2015TRPO: the discounted returns of an episode.  TRPO and GAIL: the *)
(* normalisation of the advantages of a batch.  A numpy vector of length n *)
(* is a function on 0..n-1, an n x n matrix a function on pairs <<r, c>>,  *)
(* a concatenated batch a sequence.                                        *)
Indices(n) == 0..(n - 1)

Square(n) == Indices(n) \X Indices(n)

\* gamma**i of Python: 0**0 is 1
RECURSIVE RPow(_, _)
RPow(x, k) == IF k = 0 THEN RInt(1) ELSE RMul(x, RPow(x, k - 1))

\* The positions of S in an n x n matrix in row-major order, from flat
\* position k on: the order of boolean-mask indexing and of np.triu_indices
RECURSIVE RowMajorFrom(_, _, _)
RowMajorFrom(n, S, k) ==
    IF k >= n * n THEN <<>>
    ELSE LET rc == <<k \div n, k % n>>
         IN  (IF rc \in S THEN <<rc>> ELSE <<>>) \o RowMajorFrom(n, S, k + 1)

\* np.triu_indices(n)
np_triu_indices(n) == RowMajorFrom(n, {rc \in Square(n) : rc[1] <= rc[2]}, 0)

\* m[mask] for a boolean mask (the set of positions that are True)
np_mask_select(m, n, mask) ==
    LET pos == RowMajorFrom(n, mask, 0)
    IN  [k \in DOMAIN pos |-> m[pos[k]]]

\* a[indices] = values: the value array has the shape of the indexing
\* result or broadcasts to it from one element; otherwise ValueError
np_index_assign(a, indices, values) ==
    IF Len(values) = Len(indices) \/ Len(values) = 1
    THEN [raised |-> "none",
          a |-> [rc \in DOMAIN a |->
                    IF \E k \in DOMAIN indices : indices[k] = rc
                    THEN LET k == CHOOSE i \in DOMAIN indices : indices[i] = rc
                         IN  IF Len(values) = 1 THEN values[1] ELSE values[k]
                    ELSE a[rc]]]
    ELSE [raised |-> "ValueError", a |-> a]

\* np.tril(np.tile(gamma_seq, (episode_length, 1)), k=0)[::-1]
left_justified_gamma_seqs(gamma_seq, episode_length) ==
    [rc \in Square(episode_length) |->
        IF rc[2] <= (episode_length - 1) - rc[1] THEN gamma_seq[rc[2]]
        ELSE RInt(0)]

\* ICML2015TRPO._compute_accumulated_reward(reward_sequence, gamma)
ICML2015TRPO_compute_accumulated_reward(reward_sequence, gamma) ==
    LET episode_length == Cardinality(DOMAIN reward_sequence)
        gamma_seq == [i \in Indices(episode_length) |-> RPow(gamma, i)]
        left == left_justified_gamma_seqs(gamma_seq, episode_length)
        mask == {rc \in Square(episode_length) : left[rc] # RInt(0)}
        zeros == [rc \in Square(episode_length) |-> RInt(0)]
        set == np_index_assign(zeros, np_triu_indices(episode_length),
                               np_mask_select(left, episode_length, mask))
    IN  [raised |-> set.raised,
         gamma_seqs |-> set.a,
         out |-> IF set.raised # "none" THEN <<>>
                 ELSE [t \in Indices(episode_length) |->
                          RSum([j \in Indices(episode_length) |->
                                   RMul(reward_sequence[j], set.a[<<t, j>>])])]]

ToSeq(row) == [k \in 1..Cardinality(DOMAIN row) |-> row[k - 1]]

\* np.concatenate(batch, axis=0) of the vectors batch[from..]
RECURSIVE np_concatenate_from(_, _)
np_concatenate_from(batch, from) ==
    IF from > Len(batch) THEN <<>>
    ELSE ToSeq(batch[from]) \o np_concatenate_from(batch, from + 1)

np_concatenate(batch) == np_concatenate_from(batch, 1)

\* ICML2015TRPO._align_experiences, the accumulated rewards of it: one
\* _compute_accumulated_reward per episode, in order, stopping at the first
\* that raises
ICML2015TRPO_align_experiences(experiences, gamma, num_steps_per_iteration) ==
    LET acc == [e \in DOMAIN experiences |->
                   ICML2015TRPO_compute_accumulated_reward(experiences[e].r, gamma)]
        bad == {e \in DOMAIN experiences : acc[e].raised # "none"}
        first == IF bad = {} THEN Len(experiences) + 1
                 ELSE CHOOSE e \in bad : \A o \in bad : e <= o
        accumulated_reward_batch ==
            np_concatenate([e \in DOMAIN experiences |-> acc[e].out])
    IN  IF bad # {}
        THEN [raised |-> acc[first].raised,
              acc |-> [e \in 1..first |-> acc[e]], batch |-> <<>>]
        ELSE IF Len(accumulated_reward_batch) < num_steps_per_iteration
        THEN [raised |-> "AssertionError", acc |-> acc, batch |-> <<>>]
        ELSE [raised |-> "none", acc |-> acc,
              batch |-> SubSeq(accumulated_reward_batch, 1,
                               num_steps_per_iteration)]

RECURSIVE SeqSumFrom(_, _)
SeqSumFrom(x, i) == IF i > Len(x) THEN RInt(0) ELSE RAdd(x[i], SeqSumFrom(x, i + 1))

\* np.mean(x)
np_mean(x) == RDiv(SeqSumFrom(x, 1), RInt(Len(x)))

\* np.std(x), by its square: the mean of the squared deviations
np_std_squared(x) ==
    np_mean([k \in DOMAIN x |-> RMul(RSub(x[k], np_mean(x)), RSub(x[k], np_mean(x)))])

Sign(x) == IF x[1] > 0 THEN 1 ELSE IF x[1] < 0 THEN -1 ELSE 0

\* x / std of numpy floats: 0 / 0 is nan and x / 0 is inf, with a warning and
\* no exception.  A finite quotient is kept as its sign and its square.
np_divide_by_std(x, std_squared) ==
    IF std_squared = RInt(0)
    THEN IF x = RInt(0) THEN [kind |-> "nan", sign |-> 0, squared |-> RInt(0)]
         ELSE [kind |-> "inf", sign |-> Sign(x), squared |-> RInt(0)]
    ELSE [kind |-> "finite", sign |-> Sign(x),
          squared |-> RDiv(RMul(x, x), std_squared)]

\* TRPO._compute_v_target_and_advantage: experiences[e] is what
\* compute_v_target_and_advantage returned for experience e
TRPO_compute_v_target_and_advantage(experiences) ==
    LET adv_batch == np_concatenate([e \in DOMAIN experiences |-> experiences[e].adv])
        v_target_batch ==
            np_concatenate([e \in DOMAIN experiences |-> experiences[e].v_target])
        adv_mean == np_mean(adv_batch)
        adv_std == np_std_squared(adv_batch)
    IN  [raised |-> "none",
         v_target_batch |-> v_target_batch,
         adv_batch |-> [k \in DOMAIN adv_batch |->
                           np_divide_by_std(RSub(adv_batch[k], adv_mean), adv_std)]]

\* GAIL._compute_v_target_and_advantage: the same computation over the
\* experiences the buffer iterator yields
GAIL_compute_v_target_and_advantage(buffer_iterator) ==
    LET adv_batch ==
            np_concatenate([e \in DOMAIN buffer_iterator |-> buffer_iterator[e].adv])
        v_target_batch ==
            np_concatenate([e \in DOMAIN buffer_iterator |->
                               buffer_iterator[e].v_target])
        adv_mean == np_mean(adv_batch)
        adv_std == np_std_squared(adv_batch)
    IN  [raised |-> "none",
         v_target_batch |-> v_target_batch,
         adv_batch |-> [k \in DOMAIN adv_batch |->
                           np_divide_by_std(RSub(adv_batch[k], adv_mean), adv_std)]]


\* Episodes as the environment produces them: every reward a small integer
RewardRows ==
    UNION {[Indices(L) -> {RInt(r) : r \in 0..MaxR}] : L \in 1..MaxLen}

StepsOf(experiences) == Len(np_concatenate(experiences))

EpisodeBatches ==
    {<<e>> : e \in RewardRows}
    \cup {b \in RewardRows \X RewardRows : StepsOf(b) <= MaxLen}

\* _run_online_training_iteration collects episodes while
\* num_steps <= num_steps_per_iteration: the last episode is the first to
\* take the number of steps beyond num_steps_per_iteration (which is positive)
Collected(experiences, num_steps_per_iteration) ==
    /\ num_steps_per_iteration > 0
    /\ StepsOf(SubSeq(experiences, 1, Len(experiences) - 1))
           <= num_steps_per_iteration
    /\ num_steps_per_iteration < StepsOf(experiences)

\* What compute_v_target_and_advantage returns for the episodes b with a
\* value function that is 0 everywhere: the advantages are the targets
Advantages(b) == [e \in DOMAIN b |-> [adv |-> b[e], v_target |-> b[e]]]

\* The reward sequences marshall_experiences extracts from the episodes b
Rewards(b) == [e \in DOMAIN b |-> [r |-> b[e]]]

TRPOInit ==
    /\ \E b \in EpisodeBatches, n \in 1..MaxLen :
         /\ Collected(b, n)
         /\ trpo \in
              {[stage |-> "input", algorithm |-> "ICML2015TRPO",
                experiences |-> Rewards(b), gamma |-> Rat(k, GammaDen),
                num_steps_per_iteration |-> n] : k \in 0..GammaDen}
              \cup
              {[stage |-> "input", algorithm |-> a,
                experiences |-> Advantages(b), gamma |-> RInt(1),
                num_steps_per_iteration |-> n] : a \in {"TRPO", "GAIL"}}
    /\ trainers = <<>>
    /\ params = <<>>
    /\ call = NoCall
    /\ bcq = IdleBCQ
    /\ online = IdleOnline
    /\ iteration_num = 0
    /\ ncalls = <<>>
    /\ config = NoConfig
    /\ ddqn = IdleDDQN
    /\ c51 = IdleC51
    /\ algo = IdleAlgo
    /\ diag = IdleDiag
    /\ scope = IdleScope

\* ICML2015TRPO._trpo_training up to the experience handed to the trainer
ICML2015TRPOAlign ==
    /\ trpo.stage = "input"
    /\ trpo.algorithm = "ICML2015TRPO"
    /\ \E r \in {ICML2015TRPO_align_experiences(trpo.experiences, trpo.gamma,
                                                trpo.num_steps_per_iteration)} :
         trpo' = [stage |-> "done", algorithm |-> trpo.algorithm,
                  experiences |-> trpo.experiences, gamma |-> trpo.gamma,
                  num_steps_per_iteration |-> trpo.num_steps_per_iteration,
                  raised |-> r.raised, acc |-> r.acc, batch |-> r.batch]
    /\ UNCHANGED <<trainers, params, call, iteration_num, ncalls, config, ddqn,
                   c51, algo, diag, scope, bcq, online>>

\* TRPO._align_experiences: the advantages handed to the policy trainer
TRPOAlign ==
    /\ trpo.stage = "input"
    /\ trpo.algorithm = "TRPO"
    /\ \E r \in {TRPO_compute_v_target_and_advantage(trpo.experiences)} :
         trpo' = [stage |-> "done", algorithm |-> trpo.algorithm,
                  experiences |-> trpo.experiences, gamma |-> trpo.gamma,
                  num_steps_per_iteration |-> trpo.num_steps_per_iteration,
                  raised |-> r.raised, acc |-> <<>>,
                  batch |-> SubSeq(r.adv_batch, 1, trpo.num_steps_per_iteration)]
    /\ UNCHANGED <<trainers, params, call, iteration_num, ncalls, config, ddqn,
                   c51, algo, diag, scope, bcq, online>>

\* GAIL._align_policy_experiences: the advantages handed to the policy trainer
GAILAlign ==
    /\ trpo.stage = "input"
    /\ trpo.algorithm = "GAIL"
    /\ \E r \in {GAIL_compute_v_target_and_advantage(trpo.experiences)} :
         trpo' = [stage |-> "done", algorithm |-> trpo.algorithm,
                  experiences |-> trpo.experiences, gamma |-> trpo.gamma,
                  num_steps_per_iteration |-> trpo.num_steps_per_iteration,
                  raised |-> r.raised, acc |-> <<>>,
                  batch |-> SubSeq(r.adv_batch, 1, trpo.num_steps_per_iteration)]
    /\ UNCHANGED <<trainers, params, call, iteration_num, ncalls, config, ddqn,
                   c51, algo, diag, scope, bcq, online>>

TRPONext == ICML2015TRPOAlign \/ TRPOAlign \/ GAILAlign

SpecTRPO == TRPOInit /\ [][TRPONext]_vars


TRPODone(algorithm) == trpo.stage = "done" /\ trpo.algorithm = algorithm

\* The return of step t of an episode: r_t + gamma * (the return of step t + 1)
RECURSIVE DiscountedReturn(_, _, _)
DiscountedReturn(r, gamma, t) ==
    IF t \notin DOMAIN r THEN RInt(0)
    ELSE RAdd(r[t], RMul(gamma, DiscountedReturn(r, gamma, t + 1)))

\* C11: with gamma = 0, _compute_accumulated_reward returns the rewards of
\* an episode of any length unchanged: no error, and output[t] = r_t.
C11_GammaZeroReturnsRawRewards ==
    (TRPODone("ICML2015TRPO") /\ trpo.gamma = RInt(0)) =>
        /\ trpo.raised = "none"
        /\ \A e \in DOMAIN trpo.experiences :
             trpo.acc[e].out = trpo.experiences[e].r

\* C12: the discount matrix of every episode is upper triangular with
\* D[t][j] = gamma^(j-t) for j >= t and 0 below the diagonal, and output[t]
\* is the discounted sum of the rewards of the same episode from t on.
C12_TriangularDiscountMatrix ==
    TRPODone("ICML2015TRPO") =>
        /\ trpo.raised = "none"
        /\ \A e \in DOMAIN trpo.experiences :
             LET r == trpo.experiences[e].r
                 L == Cardinality(DOMAIN r)
             IN  /\ \A rc \in Square(L) :
                       trpo.acc[e].gamma_seqs[rc] =
                           IF rc[2] >= rc[1] THEN RPow(trpo.gamma, rc[2] - rc[1])
                           ELSE RInt(0)
                 /\ \A t \in Indices(L) :
                       trpo.acc[e].out[t] = DiscountedReturn(r, trpo.gamma, t)

AllEqual(x) == \A i, j \in DOMAIN x : x[i] = x[j]

\* C13: when every advantage of the batch is equal, the normalised
\* advantages TRPO and GAIL hand to the policy trainer are finite and no
\* error is raised.
C13_EqualAdvantagesStayFinite ==
    ((TRPODone("TRPO") \/ TRPODone("GAIL"))
     /\ AllEqual(np_concatenate([e \in DOMAIN trpo.experiences |->
                                    trpo.experiences[e].adv]))) =>
        /\ trpo.raised = "none"
        /\ \A k \in DOMAIN trpo.batch : trpo.batch[k].kind = "finite"


---------------------------------------------------------------------------
(* Parameter objects of the algorithms.  A parameter object is a record of *)
(* its numeric fields, each an exact rational; __post_init__ is the        *)
(* conjunction of its checks, which all raise ValueError.                  *)
RLt(x, y) == ~RLe(y, x)

\* AlgorithmParam._assert_between: low <= value <= high, or ValueError
AlgorithmParam_assert_between(value, low, high) == RLe(low, value) /\ RLe(value, high)

\* AlgorithmParam._assert_positive: 0 < value, or ValueError
AlgorithmParam_assert_positive(value) == RLt(RInt(0), value)

\* AlgorithmParam._assert_negative: value < 0, or ValueError
AlgorithmParam_assert_negative(value) == RLt(value, RInt(0))

\* AlgorithmParam._assert_smaller_than: value <= ref_value, or ValueError
AlgorithmParam_assert_smaller_than(value, ref_value) == RLe(value, ref_value)

MunchausenDQNConfig_post_init(self) ==
    /\ AlgorithmParam_assert_between(self.gamma, RInt(0), RInt(1))
    /\ AlgorithmParam_assert_positive(self.batch_size)
    /\ AlgorithmParam_assert_positive(self.learning_rate)
    /\ AlgorithmParam_assert_positive(self.learner_update_frequency)
    /\ AlgorithmParam_assert_positive(self.target_update_frequency)
    /\ AlgorithmParam_assert_positive(self.start_timesteps)
    /\ AlgorithmParam_assert_smaller_than(self.start_timesteps, self.replay_buffer_size)
    /\ AlgorithmParam_assert_positive(self.replay_buffer_size)
    /\ AlgorithmParam_assert_between(self.initial_epsilon, RInt(0), RInt(1))
    /\ AlgorithmParam_assert_between(self.final_epsilon, RInt(0), RInt(1))
    /\ AlgorithmParam_assert_between(self.test_epsilon, RInt(0), RInt(1))
    /\ AlgorithmParam_assert_positive(self.max_explore_steps)
    /\ AlgorithmParam_assert_negative(self.clipping_value)

TD3Param_post_init(self) ==
    /\ RLt(RInt(0), self.d)
    /\ RLe(RInt(0), self.tau) /\ RLe(self.tau, RInt(1))
    /\ RLe(RInt(0), self.gamma) /\ RLe(self.gamma, RInt(1))

TRPOParam_post_init(self) ==
    /\ AlgorithmParam_assert_between(self.gamma, RInt(0), RInt(1))
    /\ AlgorithmParam_assert_between(self.lmb, RInt(0), RInt(1))
    /\ AlgorithmParam_assert_positive(self.num_steps_per_iteration)
    /\ AlgorithmParam_assert_positive(self.sigma_kl_divergence_constraint)
    /\ AlgorithmParam_assert_positive(self.maximum_backtrack_numbers)
    /\ AlgorithmParam_assert_positive(self.conjugate_gradient_damping)
    /\ AlgorithmParam_assert_positive(self.conjugate_gradient_iterations)
    /\ AlgorithmParam_assert_positive(self.vf_epochs)
    /\ AlgorithmParam_assert_positive(self.vf_batch_size)
    /\ AlgorithmParam_assert_positive(self.vf_learning_rate)

ICML2015TRPOParam_post_init(self) ==
    /\ AlgorithmParam_assert_between(self.gamma, RInt(0), RInt(1))
    /\ AlgorithmParam_assert_positive(self.batch_size)
    /\ AlgorithmParam_assert_positive(self.num_steps_per_iteration)
    /\ AlgorithmParam_assert_positive(self.sigma_kl_divergence_constraint)
    /\ AlgorithmParam_assert_positive(self.maximum_backtrack_numbers)
    /\ AlgorithmParam_assert_positive(self.conjugate_gradient_damping)

GAILParam_post_init(self) ==
    /\ AlgorithmParam_assert_between(self.pi_batch_size, RInt(0),
                                     self.num_steps_per_iteration)
    /\ AlgorithmParam_assert_positive(self.discriminator_learning_rate)
    /\ AlgorithmParam_assert_positive(self.discriminator_batch_size)
    /\ AlgorithmParam_assert_positive(self.policy_update_interval)
    /\ AlgorithmParam_assert_positive(self.discriminator_update_interval)
    /\ AlgorithmParam_assert_positive(self.adversary_entropy_coef)
    /\ AlgorithmParam_assert_between(self.gamma, RInt(0), RInt(1))
    /\ AlgorithmParam_assert_between(self.lmb, RInt(0), RInt(1))
    /\ AlgorithmParam_assert_positive(self.num_steps_per_iteration)
    /\ AlgorithmParam_assert_positive(self.sigma_kl_divergence_constraint)
    /\ AlgorithmParam_assert_positive(self.maximum_backtrack_numbers)
    /\ AlgorithmParam_assert_positive(self.conjugate_gradient_damping)
    /\ AlgorithmParam_assert_positive(self.conjugate_gradient_iterations)
    /\ AlgorithmParam_assert_positive(self.vf_epochs)
    /\ AlgorithmParam_assert_positive(self.vf_batch_size)
    /\ AlgorithmParam_assert_positive(self.vf_learning_rate)

ParamClasses ==
    {"MunchausenDQNConfig", "TD3Param", "TRPOParam", "ICML2015TRPOParam", "GAILParam"}

\* The default values of the fields of each parameter class
Defaults(cls) ==
    CASE cls = "MunchausenDQNConfig" ->
        [gamma |-> Rat(99, 100), batch_size |-> RInt(32),
        learning_rate |-> Rat(5, 100000), learner_update_frequency |-> RInt(4),
        target_update_frequency |-> RInt(10000), start_timesteps |-> RInt(50000),
        replay_buffer_size |-> RInt(1000000), initial_epsilon |-> RInt(1),
        final_epsilon |-> Rat(1, 100), test_epsilon |-> Rat(1, 1000),
        max_explore_steps |-> RInt(1000000), entropy_temperature |-> Rat(3, 100),
        munchausen_scaling_term |-> Rat(9, 10), clipping_value |-> RInt(-1)]
      [] cls = "TD3Param" ->
        [d |-> RInt(2), tau |-> Rat(5, 1000), gamma |-> Rat(99, 100),
        learning_rate |-> Rat(1, 1000), exploration_noise_sigma |-> Rat(1, 10),
        train_action_noise_sigma |-> Rat(2, 10), train_action_noise_abs |-> Rat(5, 10),
        batch_size |-> RInt(100), start_timesteps |-> RInt(10000),
        replay_buffer_size |-> RInt(1000000)]
      [] cls = "TRPOParam" ->
        [gamma |-> Rat(995, 1000), lmb |-> Rat(97, 100),
        num_steps_per_iteration |-> RInt(5000),
        sigma_kl_divergence_constraint |-> Rat(1, 100),
        maximum_backtrack_numbers |-> RInt(10),
        conjugate_gradient_damping |-> Rat(1, 10),
        conjugate_gradient_iterations |-> RInt(20), vf_epochs |-> RInt(5),
        vf_batch_size |-> RInt(64), vf_learning_rate |-> Rat(1, 1000)]
      [] cls = "ICML2015TRPOParam" ->
        [gamma |-> Rat(99, 100), num_steps_per_iteration |-> RInt(100000),
        batch_size |-> RInt(2500), sigma_kl_divergence_constraint |-> Rat(1, 100),
        maximum_backtrack_numbers |-> RInt(10),
        conjugate_gradient_damping |-> Rat(1, 1000),
        conjugate_gradient_iterations |-> RInt(10)]
      [] cls = "GAILParam" ->
        [discriminator_batch_size |-> RInt(1024),
        discriminator_learning_rate |-> Rat(3, 10000),
        policy_update_interval |-> RInt(1), discriminator_update_interval |-> RInt(3),
        adversary_entropy_coef |-> Rat(1, 1000), gamma |-> Rat(995, 1000),
        lmb |-> Rat(97, 100), pi_batch_size |-> RInt(1024),
        num_steps_per_iteration |-> RInt(1024),
        sigma_kl_divergence_constraint |-> Rat(1, 100),
        maximum_backtrack_numbers |-> RInt(10),
        conjugate_gradient_damping |-> Rat(1, 10),
        conjugate_gradient_iterations |-> RInt(10), vf_epochs |-> RInt(5),
        vf_batch_size |-> RInt(128), vf_learning_rate |-> Rat(1, 1000)]

\* The dataclass constructor: the fields are stored, then __post_init__ runs
Param_init(cls, fields) ==
    LET ok == CASE cls = "MunchausenDQNConfig" -> MunchausenDQNConfig_post_init(fields)
                [] cls = "TD3Param" -> TD3Param_post_init(fields)
                [] cls = "TRPOParam" -> TRPOParam_post_init(fields)
                [] cls = "ICML2015TRPOParam" -> ICML2015TRPOParam_post_init(fields)
                [] cls = "GAILParam" -> GAILParam_post_init(fields)
    IN  IF ok THEN "none" ELSE "ValueError"


---------------------------------------------------------------------------
(* Algorithms and the training modes they implement                        *)
AlgorithmOf(cls) ==
    CASE cls = "MunchausenDQNConfig" -> "MunchausenDQN"
      [] cls = "TD3Param" -> "TD3"
      [] cls = "TRPOParam" -> "TRPO"
      [] cls = "ICML2015TRPOParam" -> "ICML2015TRPO"
      [] cls = "GAILParam" -> "GAIL"

\* The environments an algorithm is built for in the repository: discrete
\* (TRUE) or continuous (FALSE) actions
EnvKinds(name) ==
    CASE name = "MunchausenDQN" -> {TRUE}
      [] name \in {"TD3", "BCQ", "BEAR"} -> {FALSE}
      [] OTHER -> BOOLEAN

\* Algorithm.__init__ of TRPO and GAIL: a discrete action environment is
\* not implemented; the other constructors build their models
Algorithm_init(name, discrete) ==
    IF name \in {"TRPO", "GAIL"} /\ discrete THEN "NotImplementedError" ELSE "none"

\* Mutant: the offline iteration trains instead of raising
TRPO_run_offline_training_iteration_Trains == "none"

\* TRPO._run_offline_training_iteration
TRPO_run_offline_training_iteration == "NotImplementedError"

\* What one training iteration of the mode raises: the offline iteration of
\* TRPO, ICML2015TRPO and GAIL and the online training of BCQ and BEAR are
\* not implemented; "none" when the iteration runs the algorithm's training
run_training_iteration(name, mode) ==
    CASE mode = "offline" /\ name = "TRPO" -> TRPO_run_offline_training_iteration
      [] mode = "offline" /\ name \in {"ICML2015TRPO", "GAIL"} -> "NotImplementedError"
      [] mode = "online" /\ name \in {"BCQ", "BEAR"} -> "NotImplementedError"
      [] OTHER -> "none"

---------------------------------------------------------------------------
(* Construction of the Training strategies over lists of models            *)

\* TD3Training.__init__
TD3Training_init(train_functions, target_functions) ==
    LET train_function == train_functions[1]
        target_function == target_functions[1]
    IN  IF IsQFunction(train_function) /\ IsQFunction(target_function)
        THEN [delegate |-> "_QFunctionTD3Training",
              target_functions |-> target_functions, raised |-> "none"]
        ELSE [delegate |-> "none", target_functions |-> <<>>,
              raised |-> "NotImplementedError"]

\* BCQTraining.__init__
BCQTraining_init(train_functions, target_functions) ==
    LET train_function == train_functions[1]
        target_function == target_functions[1]
    IN  IF IsQFunction(train_function) /\ IsQFunction(target_function)
        THEN [delegate |-> "_QFunctionBCQTraining",
              target_functions |-> target_functions, raised |-> "none"]
        ELSE [delegate |-> "none", target_functions |-> <<>>,
              raised |-> "NotImplementedError"]

ModelsOfClass == {[cls |-> c] : c \in ModelClasses}

\* A single model (converted to a list of one) or a list of two
ModelLists == {<<m>> : m \in ModelsOfClass} \cup (ModelsOfClass \X ModelsOfClass)

\* Values tried for one field of a parameter object
FieldValues == {Rat(k, GammaDen) : k \in (-GammaDen)..(2 * GammaDen)}

\* The arguments of a parameter object: the defaults with one field given
ParamArgs ==
    UNION {{[stage |-> "args", cls |-> c, discrete |-> e,
             fields |-> [Defaults(c) EXCEPT ![x[1]] = x[2]]] :
               x \in (DOMAIN Defaults(c)) \X FieldValues, e \in EnvKinds(AlgorithmOf(c))} :
           c \in ParamClasses}

AlgoInit ==
    /\ algo \in
         ParamArgs
         \cup {[stage |-> "algorithm", name |-> n, discrete |-> FALSE,
                mode |-> "none", raised |-> "none",
                target_update_frequency |-> 0] : n \in {"BCQ", "BEAR"}}
         \cup {[stage |-> "models", strategy |-> "DDQNTraining",
                train_functions |-> <<m>>, target_functions |-> <<t>>] :
                  m \in ModelsOfClass, t \in ModelsOfClass}
         \cup {[stage |-> "models", strategy |-> st,
                train_functions |-> m, target_functions |-> t] :
                  st \in {"TD3Training", "BCQTraining"},
                  m \in ModelLists, t \in ModelLists}
    /\ trainers = <<>>
    /\ params = <<>>
    /\ call = NoCall
    /\ bcq = IdleBCQ
    /\ online = IdleOnline
    /\ iteration_num = 0
    /\ ncalls = <<>>
    /\ config = NoConfig
    /\ ddqn = IdleDDQN
    /\ c51 = IdleC51
    /\ trpo = IdleTRPO
    /\ diag = IdleDiag
    /\ scope = IdleScope

\* MunchausenDQN._setup_q_function_training: the target_update_frequency
\* handed to PeriodicalTargetUpdate,
\* config.target_update_frequency // config.learner_update_frequency
MunchausenDQN_target_update_frequency(fields) ==
    RFloor(RDiv(fields.target_update_frequency, fields.learner_update_frequency))

\* cls(field=value): the parameter object exists iff __post_init__ returns
ParamConstruct ==
    /\ algo.stage = "args"
    /\ \E r \in {Param_init(algo.cls, algo.fields)} :
         algo' = [stage |-> IF r = "none" THEN "param" ELSE "rejected",
                  cls |-> algo.cls, discrete |-> algo.discrete,
                  fields |-> algo.fields, raised |-> r]
    /\ UNCHANGED <<trainers, params, call, iteration_num, ncalls, config, ddqn,
                   c51, trpo, diag, scope, bcq, online>>

\* Algorithm(env, params=params) with a parameter object that exists; the
\* algorithms that set up no periodical update of their own are given the
\* frequency 0
AlgorithmConstruct ==
    /\ algo.stage = "param"
    /\ \E r \in {Algorithm_init(AlgorithmOf(algo.cls), algo.discrete)} :
         algo' = [stage |-> IF r = "none" THEN "algorithm" ELSE "unbuilt",
                  name |-> AlgorithmOf(algo.cls), discrete |-> algo.discrete,
                  mode |-> "none", raised |-> r,
                  target_update_frequency |->
                      IF algo.cls = "MunchausenDQNConfig"
                      THEN MunchausenDQN_target_update_frequency(algo.fields)
                      ELSE 0]
    /\ UNCHANGED <<trainers, params, call, iteration_num, ncalls, config, ddqn,
                   c51, trpo, diag, scope, bcq, online>>

\* One iteration of train_online
TrainOnline ==
    /\ algo.stage = "algorithm"
    /\ iteration_num < MaxIter
    /\ iteration_num' = iteration_num + 1
    /\ algo' = [algo EXCEPT !.mode = "online",
                            !.raised = run_training_iteration(algo.name, "online")]
    /\ UNCHANGED <<trainers, params, call, ncalls, config, ddqn,
                   c51, trpo, diag, scope, bcq, online>>

\* One iteration of train_offline
TrainOffline ==
    /\ algo.stage = "algorithm"
    /\ iteration_num < MaxIter
    /\ iteration_num' = iteration_num + 1
    /\ algo' = [algo EXCEPT !.mode = "offline",
                            !.raised = run_training_iteration(algo.name, "offline")]
    /\ UNCHANGED <<trainers, params, call, ncalls, config, ddqn,
                   c51, trpo, diag, scope, bcq, online>>

\* DDQNTraining(train_function, target_function)
DDQNTrainingConstruct ==
    /\ algo.stage = "models"
    /\ algo.strategy = "DDQNTraining"
    /\ \E r \in {DDQNTraining_init(algo.train_functions[1], algo.target_functions[1])} :
         algo' = [stage |-> "strategy", strategy |-> algo.strategy,
                  train_functions |-> algo.train_functions,
                  target_functions |-> algo.target_functions,
                  delegate |-> r.delegate, raised |-> r.raised]
    /\ UNCHANGED <<trainers, params, call, iteration_num, ncalls, config, ddqn,
                   c51, trpo, diag, scope, bcq, online>>

\* TD3Training(train_functions, target_functions, target_policy)
TD3TrainingConstruct ==
    /\ algo.stage = "models"
    /\ algo.strategy = "TD3Training"
    /\ \E r \in {TD3Training_init(algo.train_functions, algo.target_functions)} :
         algo' = [stage |-> "strategy", strategy |-> algo.strategy,
                  train_functions |-> algo.train_functions,
                  target_functions |-> algo.target_functions,
                  delegate |-> r.delegate, raised |-> r.raised]
    /\ UNCHANGED <<trainers, params, call, iteration_num, ncalls, config, ddqn,
                   c51, trpo, diag, scope, bcq, online>>

\* BCQTraining(train_functions, target_functions, target_policy, ...)
BCQTrainingConstruct ==
    /\ algo.stage = "models"
    /\ algo.strategy = "BCQTraining"
    /\ \E r \in {BCQTraining_init(algo.train_functions, algo.target_functions)} :
         algo' = [stage |-> "strategy", strategy |-> algo.strategy,
                  train_functions |-> algo.train_functions,
                  target_functions |-> algo.target_functions,
                  delegate |-> r.delegate, raised |-> r.raised]
    /\ UNCHANGED <<trainers, params, call, iteration_num, ncalls, config, ddqn,
                   c51, trpo, diag, scope, bcq, online>>

AlgoNext ==
    \/ ParamConstruct
    \/ AlgorithmConstruct
    \/ TrainOnline
    \/ TrainOffline
    \/ DDQNTrainingConstruct
    \/ TD3TrainingConstruct
    \/ BCQTrainingConstruct

SpecAlgo == AlgoInit /\ [][AlgoNext]_vars


BatchSizeFields ==
    {"batch_size", "vf_batch_size", "pi_batch_size", "discriminator_batch_size"}

\* A gamma outside [0, 1] or a negative batch size among the fields
InvalidHyperparameters(fields) ==
    \/ /\ "gamma" \in DOMAIN fields
       /\ ~(RLe(RInt(0), fields.gamma) /\ RLe(fields.gamma, RInt(1)))
    \/ \E f \in BatchSizeFields \cap DOMAIN fields : RLt(fields[f], RInt(0))

\* C14: every parameter object rejects a gamma outside [0,1] and a negative
\* batch size at construction with ValueError, so that no parameter object
\* (and no algorithm) with such a field exists.
C14_InvalidHyperparametersRejected ==
    (algo.stage \in {"param", "rejected"} /\ InvalidHyperparameters(algo.fields)) =>
        (algo.stage = "rejected" /\ algo.raised = "ValueError")

\* The kinds of model pair a strategy has a delegate for
Supported(strategy, m, t) ==
    \/ IsQFunction(m) /\ IsQFunction(t)
    \/ /\ strategy = "DDQNTraining"
       /\ IsValueDistributionFunction(m) /\ IsValueDistributionFunction(t)

PairsOf(a) == DOMAIN a.train_functions \cap DOMAIN a.target_functions

\* C15: a Training strategy constructed with, at any position of its model
\* lists, train and target models of different types fails with ValueError,
\* and with a pair of a kind it has no delegate for fails with
\* NotImplementedError; no delegate is produced for such lists.
C15_MismatchedModelsRejected ==
    algo.stage = "strategy" =>
        LET mismatched == \E i \in PairsOf(algo) :
                algo.train_functions[i].cls # algo.target_functions[i].cls
            unsupported == \E i \in PairsOf(algo) :
                ~Supported(algo.strategy, algo.train_functions[i],
                           algo.target_functions[i])
        IN  /\ mismatched => algo.raised = "ValueError"
            /\ (unsupported /\ ~mismatched) => algo.raised = "NotImplementedError"
            /\ (mismatched \/ unsupported) => algo.delegate = "none"

UnsupportedModes ==
    {<<"BCQ", "online">>, <<"BEAR", "online">>, <<"TRPO", "offline">>,
     <<"ICML2015TRPO", "offline">>, <<"GAIL", "offline">>}

\* C16: a training iteration of a mode the algorithm does not support raises
\* NotImplementedError: online on BCQ and BEAR, offline on TRPO,
\* ICML2015TRPO and GAIL.
C16_UnsupportedModeRaises ==
    (algo.stage = "algorithm" /\ <<algo.name, algo.mode>> \in UnsupportedModes) =>
        algo.raised = "NotImplementedError"

C16_Witness ==
    /\ algo.stage = "algorithm"
    /\ algo.name = "TRPO"
    /\ algo.mode = "offline"
    /\ algo.raised = "NotImplementedError"
    /\ iteration_num = 2


---------------------------------------------------------------------------
(* The concrete trainers and the diagnostics train() returns.  A           *)
(* diagnostics dictionary is the sequence of its entries in insertion      *)
(* order; an entry has a key, is a scalar or an array, and holds its       *)
(* values (one value for a scalar).                                        *)
Entry(key, scalar, value) == [key |-> key, scalar |-> scalar, value |-> value]

TrainerClasses == {"SPGPolicyTrainer", "C51ValueDistributionFunctionTrainer"}

\* SPGPolicyTrainer._update_model: the solver update, then errors = {}
SPGPolicyTrainer_update_model(x, g, batch) ==
    [x |-> ModelTrainer_update_model(x, g), errors |-> <<>>]

\* NF.mean(kl_loss * weight), as a float
C51_cross_entropy_loss(batch) ==
    np_mean([b \in DOMAIN batch.kl_loss |-> RMul(batch.kl_loss[b], batch.weight[b])])

\* C51ValueDistributionFunctionTrainer._update_model: the solver update,
\* then the trainer state; batch.kl_loss is what the forward pass leaves in
\* self._kl_loss for the batch
C51ValueDistributionFunctionTrainer_update_model(x, g, batch) ==
    [x |-> ModelTrainer_update_model(x, g),
     errors |-> <<Entry("td_errors", FALSE, batch.kl_loss),
                  Entry("cross_entropy_loss", TRUE, <<C51_cross_entropy_loss(batch)>>)>>]

\* ModelTrainer.train of a trainer of class cls: the guard, the count, the
\* hooks around the class's _update_model, and the error_info it returns
Trainer_train(cls, self, p, batch, g) ==
    IF self._models = NoModels
    THEN [x |-> [Ctx(self, p) EXCEPT !.raised = "RuntimeError"], error_info |-> <<>>]
    ELSE LET x0 == Ctx([self EXCEPT !._train_count = @ + 1], p)
             x1 == setup_experience(x0, 1)
             x2 == ModelTrainer_rebind(x1, batch.batch_size)
             n  == x2.self._train_count
             x3 == before_update(x2, 1, n)
             u  == IF cls = "SPGPolicyTrainer"
                   THEN SPGPolicyTrainer_update_model(x3, g, batch)
                   ELSE C51ValueDistributionFunctionTrainer_update_model(x3, g, batch)
             x4 == after_update(u.x, 1, n)
         IN  [x |-> [x4 EXCEPT !.self._training = x4.training],
              error_info |-> u.errors]

\* errors['td_error'] of a diagnostics dictionary, as the algorithms read it
\* before replay_buffer.update_priorities(np.abs(...))
Errors_getitem(errors, key) ==
    IF \E i \in DOMAIN errors : errors[i].key = key
    THEN [raised |-> "none",
          value |-> errors[CHOOSE i \in DOMAIN errors : errors[i].key = key].value]
    ELSE [raised |-> "KeyError", value |-> <<>>]

\* The batches of the model: per-sample losses k/Mass and weights 1
TrainingBatches ==
    UNION {{[batch_size |-> b, kl_loss |-> kl, weight |-> [i \in 1..b |-> RInt(1)]] :
              kl \in [1..b -> {Rat(k, Mass) : k \in 0..Mass}]} : b \in BatchSizes}

NoBatch == [batch_size |-> 0, kl_loss |-> <<>>, weight |-> <<>>]

DiagInit ==
    /\ \E cls \in TrainerClasses :
         /\ trainers = [t \in {cls} |-> ModelTrainer_init]
         /\ ncalls = [t \in {cls} |-> 0]
         /\ diag = [stage |-> "built", trainer |-> cls, batch |-> NoBatch,
                    raised |-> "none", error_info |-> <<>>, td_error |-> <<>>]
    /\ params \in [{"model"} -> ParamVals]
    /\ call = NoCall
    /\ bcq = IdleBCQ
    /\ online = IdleOnline
    /\ iteration_num = 0
    /\ config = NoConfig
    /\ ddqn = IdleDDQN
    /\ c51 = IdleC51
    /\ trpo = IdleTRPO
    /\ algo = IdleAlgo
    /\ scope = IdleScope

\* trainer.setup_training(model, {model.scope_name: solver}, Training())
DiagSetup ==
    /\ trainers[diag.trainer]._models = NoModels
    /\ \E x \in {ModelTrainer_setup_training(trainers[diag.trainer], params,
                                             <<"model">>, {"model"},
                                             <<PlainTraining>>)} :
         /\ trainers' = [trainers EXCEPT ![diag.trainer] = x.self]
         /\ params' = x.params
    /\ diag' = [diag EXCEPT !.stage = "setup"]
    /\ UNCHANGED <<call, iteration_num, ncalls, config, ddqn, c51, trpo, algo, scope,
                   bcq, online>>

\* errors = trainer.train(batch)
DiagTrain ==
    /\ ncalls[diag.trainer] < MaxIter
    /\ \E batch \in TrainingBatches, g \in ParamVals :
         \E r \in {Trainer_train(diag.trainer, trainers[diag.trainer], params,
                                 batch, g)} :
             /\ trainers' = [trainers EXCEPT ![diag.trainer] = r.x.self]
             /\ params' = r.x.params
             /\ ncalls' = [ncalls EXCEPT ![diag.trainer] = @ + 1]
             /\ diag' = [diag EXCEPT !.stage = "trained", !.batch = batch,
                                     !.raised = r.x.raised,
                                     !.error_info = r.error_info,
                                     !.td_error = <<>>]
    /\ UNCHANGED <<call, iteration_num, config, ddqn, c51, trpo, algo, scope, bcq, online>>

\* td_error = np.abs(errors['td_error']) of the algorithm that trained
DiagReadTdError ==
    /\ diag.stage = "trained"
    /\ diag.raised = "none"
    /\ \E r \in {Errors_getitem(diag.error_info, "td_error")} :
         diag' = [diag EXCEPT !.stage = "read", !.raised = r.raised,
                              !.td_error = r.value]
    /\ UNCHANGED <<trainers, params, call, iteration_num, ncalls, config, ddqn,
                   c51, trpo, algo, scope, bcq, online>>

DiagNext == DiagSetup \/ DiagTrain \/ DiagReadTdError

SpecDiag == DiagInit /\ [][DiagNext]_vars

TrainReturned == diag.stage = "trained" /\ diag.raised = "none"

\* C17: every train() call that completes returns a diagnostics map with at
\* least one scalar loss entry, for SPGPolicyTrainer and for
\* C51ValueDistributionFunctionTrainer.
C17_DiagnosticsHoldScalarLoss ==
    TrainReturned =>
        \E i \in DOMAIN diag.error_info : diag.error_info[i].scalar

\* C18: the C51 trainer returns the per-sample KL/cross-entropy values of
\* the batch under the diagnostics key 'td_error'.
C18_PrioritySignalUnderTdError ==
    (TrainReturned /\ diag.trainer = "C51ValueDistributionFunctionTrainer") =>
        \E i \in DOMAIN diag.error_info :
            /\ diag.error_info[i].key = "td_error"
            /\ diag.error_info[i].value = diag.batch.kl_loss


---------------------------------------------------------------------------
(* Model.deepcopy and the nnabla parameter registry.  The registry is the  *)
(* sequence of the registered parameters in creation order, each with its  *)
(* scope, its name, its shape and the storage cell that holds its data;    *)
(* the heap maps a storage cell to the data in it.                         *)
ScopeNames == {"q", "target_q"}

ParamNames == <<"W", "b">>

\* The shape of a parameter of the given name (a weight or a bias)
ShapeOf(param_name) == IF param_name = "W" THEN <<2, 1>> ELSE <<1>>

\* with nn.parameter_scope(scope_name): nn.get_parameters(grad_only=False),
\* the indices of the parameters of the scope in creation order, from i on
RECURSIVE nn_get_parameters_from(_, _, _)
nn_get_parameters_from(registry, scope_name, i) ==
    IF i > Len(registry) THEN <<>>
    ELSE (IF registry[i].scope = scope_name THEN <<i>> ELSE <<>>)
         \o nn_get_parameters_from(registry, scope_name, i + 1)

nn_get_parameters(registry, scope_name) ==
    nn_get_parameters_from(registry, scope_name, 1)

\* with nn.parameter_scope(scope_name): nn.parameter.get_parameter(param_name)
\* is not None
nn_has_parameter(registry, scope_name, param_name) ==
    \E i \in DOMAIN registry :
        registry[i].scope = scope_name /\ registry[i].name = param_name

\* Mutant: the new parameter adopts the storage of the initializer
nn_get_parameter_or_create_Shared(st, scope_name, param_name, shape, cell) ==
    [registry |-> Append(st.registry, [scope |-> scope_name, name |-> param_name,
                                       shape |-> shape, cell |-> cell]),
     heap |-> st.heap]

\* with nn.parameter_scope(scope_name):
\*     nn.parameter.get_parameter_or_create(param_name, shape, initializer=param.d)
\* for a parameter that does not exist: a new parameter whose storage is
\* initialised with a copy of the data in cell
nn_get_parameter_or_create(st, scope_name, param_name, shape, cell) ==
    [registry |-> Append(st.registry, [scope |-> scope_name, name |-> param_name,
                                       shape |-> shape, cell |-> Len(st.heap) + 1]),
     heap |-> Append(st.heap, st.heap[cell])]

\* deepcopy, lines 81-87: the loop over the parameters of the source, the
\* i-th of them next
RECURSIVE Model_deepcopy_loop(_, _, _, _, _)
Model_deepcopy_loop(st, registry0, src_params, i, new_scope_name) ==
    IF i > Len(src_params) THEN [raised |-> "none", st |-> st]
    ELSE LET param == registry0[src_params[i]]
         IN  IF nn_has_parameter(st.registry, new_scope_name, param.name)
             THEN [raised |-> "RuntimeError", st |-> st]
             ELSE Model_deepcopy_loop(
                      nn_get_parameter_or_create(st, new_scope_name, param.name,
                                                 param.shape, param.cell),
                      registry0, src_params, i + 1, new_scope_name)

NoModel == [_scope_name |-> "none"]

\* Model.deepcopy(new_scope_name)
Model_deepcopy(self, st, new_scope_name) ==
    IF new_scope_name = self._scope_name
    THEN [raised |-> "ValueError", st |-> st, copied |-> NoModel]
    ELSE LET copied == [self EXCEPT !._scope_name = new_scope_name]
             src_params == nn_get_parameters(st.registry, self._scope_name)
             r == Model_deepcopy_loop(st, st.registry, src_params, 1, new_scope_name)
         IN  [raised |-> r.raised, st |-> r.st,
              copied |-> IF r.raised = "none" THEN copied ELSE NoModel]

\* param.d = value for the parameter at position i of the registry
Parameter_set_d(st, i, value) ==
    [st EXCEPT !.heap[st.registry[i].cell] = value]

\* The registries the program starts from: any of the parameters of the two
\* scopes, created scope by scope, each with storage of its own
RECURSIVE InitialRegistry(_, _)
InitialRegistry(present, k) ==
    IF k > 2 * Len(ParamNames) THEN <<>>
    ELSE LET sc == IF k <= Len(ParamNames) THEN "q" ELSE "target_q"
             nm == ParamNames[((k - 1) % Len(ParamNames)) + 1]
             rest == InitialRegistry(present, k + 1)
         IN  IF <<sc, nm>> \in present
             THEN <<[scope |-> sc, name |-> nm, shape |-> ShapeOf(nm), cell |-> 0]>>
                  \o rest
             ELSE rest

Numbered(registry) == [i \in DOMAIN registry |-> [registry[i] EXCEPT !.cell = i]]

NoOp ==
    [op |-> "none", model |-> 0, new_scope_name |-> "none", raised |-> "none",
     self |-> NoModel, copied |-> NoModel, index |-> 0,
     pre |-> [registry |-> <<>>, heap |-> <<>>]]

ScopeInit ==
    /\ \E present \in SUBSET (ScopeNames \X {ParamNames[k] : k \in DOMAIN ParamNames}) :
       \E registry \in {Numbered(InitialRegistry(present, 1))} :
       \E heap \in [DOMAIN registry -> ParamVals] :
         scope = [stage |-> "models", models |-> <<[_scope_name |-> "q"]>>,
                  st |-> [registry |-> registry, heap |-> heap],
                  ops |-> 0, last |-> NoOp]
    /\ trainers = <<>>
    /\ params = <<>>
    /\ call = NoCall
    /\ bcq = IdleBCQ
    /\ online = IdleOnline
    /\ iteration_num = 0
    /\ ncalls = <<>>
    /\ config = NoConfig
    /\ ddqn = IdleDDQN
    /\ c51 = IdleC51
    /\ trpo = IdleTRPO
    /\ algo = IdleAlgo
    /\ diag = IdleDiag

\* model.deepcopy(new_scope_name) of one of the models that exist
ScopeDeepcopy ==
    /\ scope.ops < MaxOps
    /\ \E m \in DOMAIN scope.models, new_scope_name \in ScopeNames :
       \E r \in {Model_deepcopy(scope.models[m], scope.st, new_scope_name)} :
         scope' = [scope EXCEPT
                      !.models = IF r.raised = "none" THEN Append(@, r.copied) ELSE @,
                      !.st = r.st,
                      !.ops = @ + 1,
                      !.last = [op |-> "deepcopy", model |-> m,
                                new_scope_name |-> new_scope_name,
                                raised |-> r.raised, self |-> scope.models[m],
                                copied |-> r.copied, index |-> 0,
                                pre |-> scope.st]]
    /\ UNCHANGED <<trainers, params, call, iteration_num, ncalls, config, ddqn,
                   c51, trpo, algo, diag, bcq, online>>

\* A later change of a parameter (a solver update, a parameter copy)
ScopeSetParameter ==
    /\ scope.ops < MaxOps
    /\ \E i \in DOMAIN scope.st.registry, value \in ParamVals :
         scope' = [scope EXCEPT
                      !.st = Parameter_set_d(scope.st, i, value),
                      !.ops = @ + 1,
                      !.last = [op |-> "set", model |-> 0,
                                new_scope_name |-> "none", raised |-> "none",
                                self |-> NoModel, copied |-> NoModel,
                                index |-> i, pre |-> scope.st]]
    /\ UNCHANGED <<trainers, params, call, iteration_num, ncalls, config, ddqn,
                   c51, trpo, algo, diag, bcq, online>>

ScopeNext == ScopeDeepcopy \/ ScopeSetParameter

SpecScope == ScopeInit /\ [][ScopeNext]_vars


\* The data of the parameter at position i of the registry
ParameterData(st, i) == st.heap[st.registry[i].cell]

\* A deepcopy call has returned or raised
Deepcopied == scope.stage = "models" /\ scope.last.op = "deepcopy"

\* No parameter is registered under the scope name
FreshScope(registry, scope_name) == nn_get_parameters(registry, scope_name) = <<>>

\* The call returned the copy and left the source as it was; every parameter
\* of the source has a parameter of the same name, shape and data under the
\* new scope
CopiedFaithfully ==
    LET l == scope.last
        src == nn_get_parameters(l.pre.registry, l.self._scope_name)
    IN  /\ l.raised = "none"
        /\ l.copied._scope_name = l.new_scope_name
        /\ scope.models[l.model] = l.self
        /\ nn_get_parameters(scope.st.registry, l.self._scope_name) = src
        /\ \A k \in DOMAIN src :
             /\ scope.st.registry[src[k]] = l.pre.registry[src[k]]
             /\ ParameterData(scope.st, src[k]) = ParameterData(l.pre, src[k])
             /\ \E j \in DOMAIN scope.st.registry :
                  /\ scope.st.registry[j].scope = l.new_scope_name
                  /\ scope.st.registry[j].name = l.pre.registry[src[k]].name
                  /\ scope.st.registry[j].shape = l.pre.registry[src[k]].shape
                  /\ ParameterData(scope.st, j) = ParameterData(l.pre, src[k])

\* A change of one parameter has changed the data of no other parameter
IndependentStorage ==
    (scope.stage = "models" /\ scope.last.op = "set") =>
        /\ scope.st.registry = scope.last.pre.registry
        /\ \A j \in DOMAIN scope.st.registry :
             j # scope.last.index =>
                 ParameterData(scope.st, j) = ParameterData(scope.last.pre, j)

\* C19 as stated: Model.deepcopy(new_scope) with a scope name under which no
\* parameter exists returns a model whose scope_name is new_scope, leaves the
\* source model's scope_name and parameters unchanged, and creates under
\* new_scope a parameter of equal shape and equal value for every parameter of
\* the source scope; the two parameter sets are independent storage, so a
\* later change to one never changes the other.
C19_DeepcopyToParameterlessScope ==
    /\ (Deepcopied /\ FreshScope(scope.last.pre.registry, scope.last.new_scope_name))
           => CopiedFaithfully
    /\ IndependentStorage

\* C19, amended: Model.deepcopy(new_scope) with a scope name that is not the
\* model's own and under which no parameter exists returns a model whose
\* scope_name is new_scope, leaves the source model's scope_name and
\* parameters unchanged, and creates under new_scope a parameter of equal
\* shape and equal value for every parameter of the source scope; the
\* parameter sets are independent storage, so a later change to one parameter
\* never changes another.
C19_DeepcopyToFreshScope ==
    /\ (/\ Deepcopied
        /\ scope.last.new_scope_name # scope.last.self._scope_name
        /\ FreshScope(scope.last.pre.registry, scope.last.new_scope_name))
           => CopiedFaithfully
    /\ IndependentStorage

\* A parameter of the copy made by a deepcopy to a fresh scope was changed
\* afterwards and now differs from the parameter of the source it was copied
\* from
C19_Witness ==
    /\ scope.stage = "models"
    /\ scope.last.op = "set"
    /\ Len(scope.models) = 2
    /\ scope.models[2]._scope_name = "target_q"
    /\ scope.st.registry[scope.last.index].scope = "target_q"
    /\ scope.last.index > Len(scope.st.registry) - Len(nn_get_parameters(scope.st.registry, "q"))
    /\ Len(nn_get_parameters(scope.st.registry, "target_q"))
           = Len(nn_get_parameters(scope.st.registry, "q"))
    /\ \E i \in DOMAIN scope.st.registry :
         /\ scope.st.registry[i].scope = "q"
         /\ scope.st.registry[i].name = scope.st.registry[scope.last.index].name
         /\ ParameterData(scope.last.pre, i) = ParameterData(scope.last.pre, scope.last.index)
         /\ ParameterData(scope.st, i) # ParameterData(scope.st, scope.last.index)

\* C20: Model.deepcopy(new_scope_name) raises ValueError both when
\* new_scope_name equals the model's own scope name and when new_scope_name
\* already exists (parameters are registered under that scope name).
C20_DeepcopyRaisesValueError ==
    (/\ Deepcopied
     /\ \/ scope.last.new_scope_name = scope.last.self._scope_name
        \/ ~FreshScope(scope.last.pre.registry, scope.last.new_scope_name))
        => scope.last.raised = "ValueError"


\* C27: Model.deepcopy is atomic on failure: whenever a deepcopy call raises
\* (same scope name, or a parameter already present under new_scope_name) the
\* global parameter store is exactly as it was before the call; no parameter
\* has been created under new_scope_name by the failed call.
C27_DeepcopyAtomicOnFailure ==
    (Deepcopied /\ scope.last.raised # "none") =>
        /\ scope.st = scope.last.pre
        /\ nn_get_parameters(scope.st.registry, scope.last.new_scope_name)
               = nn_get_parameters(scope.last.pre.registry, scope.last.new_scope_name)


\* C26: for every MunchausenDQNConfig accepted by __post_init__ the
\* synchronization period handed to the periodic target update,
\* target_update_frequency // learner_update_frequency, is an integer >= 1.
C26_SyncPeriodAtLeastOne ==
    (algo.stage = "algorithm" /\ algo.name = "MunchausenDQN") =>
        algo.target_update_frequency >= 1


\* The target atom i before it is clipped to [v_min, v_max]
C51_unclipped_target(in, i) ==
    RAdd(in.reward,
         RMul(RMul(RInt(in.non_terminal), in.gamma),
              RAdd(in.v_min, RMul(RInt(i), RDiv(RSub(in.v_max, in.v_min),
                                                 RInt(in.N - 1))))))

\* C30: for every reward (rewards that put the target outside
\* [v_min, v_max] included), gamma, non_terminal and support, both scatter
\* indices floor(b) and ceil(b) lie in 0..N-1 and both weights
\* (1 + floor(b) - b) and (b - floor(b)) lie in [0, 1], so every entry of the
\* projected distribution is non-negative whenever the target probabilities
\* pj are non-negative.
C30_ProjectionStaysInRange ==
    C51Done =>
        LET N == c51.in.N
        IN  /\ \A i \in Atoms(N) :
                  /\ c51.ml_indices[i] \in Atoms(N)
                  /\ c51.mu_indices[i] \in Atoms(N)
                  /\ c51.ml_indices[i] = RFloor(c51.bj[i])
                  /\ c51.mu_indices[i] = RCeil(c51.bj[i])
                  /\ c51.wl[i] = RSub(RInt(1 + RFloor(c51.bj[i])), c51.bj[i])
                  /\ c51.wu[i] = RSub(c51.bj[i], RInt(RFloor(c51.bj[i])))
                  /\ RLe(RInt(0), c51.wl[i]) /\ RLe(c51.wl[i], RInt(1))
                  /\ RLe(RInt(0), c51.wu[i]) /\ RLe(c51.wu[i], RInt(1))
            /\ (\A i \in Atoms(N) : RLe(RInt(0), c51.in.pj[i])) =>
                  \A k \in Atoms(N) : RLe(RInt(0), c51.mi[k])

\* A projection with an atom whose unclipped target lies above v_max and an
\* atom strictly between two bins, both with probability
C30_Witness ==
    /\ C51Done
    /\ c51.in.N = MaxAtoms
    /\ c51.in.non_terminal = 1
    /\ \E i \in Atoms(c51.in.N) :
         /\ RLt(c51.in.v_max, C51_unclipped_target(c51.in, i))
         /\ c51.mu_indices[i] = c51.in.N - 1
         /\ c51.in.pj[i] # RInt(0)
    /\ \E i \in Atoms(c51.in.N) :
         /\ ~RIsInt(c51.bj[i])
         /\ c51.in.pj[i] # RInt(0)
    /\ \A k \in Atoms(c51.in.N) : RLe(RInt(0), c51.mi[k])


\* The number of train() calls of a trainer in the last iteration
CallsOf(name) ==
    Cardinality({i \in DOMAIN call.calls : call.calls[i].trainer = name})

\* C22: in TD3 the policy trainer's train() is called only every d
\* iterations: it is invoked exactly on the training iterations with
\* iteration_num % d == 0 and on no other, while the Q-function trainer is
\* invoked on every training iteration.
C22_PolicyTrainedEveryDthIteration ==
    call.op = "iteration" =>
        /\ CallsOf(QTrainer) = 1
        /\ CallsOf(PolicyTrainer) = IF call.ord % config.d = 0 THEN 1 ELSE 0


---------------------------------------------------------------------------
(* The BCQ target of _QFunctionBCQTraining.  A batch is a function on      *)
(* 0..batch_size-1; the next state of sample i is the state i, so that the *)
(* rows of different samples can be told apart.  The two target critics    *)
(* are linear, Q_c(s, a) = w[c].s * s + w[c].a * a.                        *)
Rows(n) == 0..(n - 1)

\* The greatest and the least of a non-empty set of rationals
RMaxOf(S) == CHOOSE x \in S : \A y \in S : RLe(y, x)
RMinOf(S) == CHOOSE x \in S : \A y \in S : RLe(x, y)

\* NF.reshape of a 2-D array (rows, cols) to (rows * cols,), row-major
NF_reshape_flat(y, rows, cols) ==
    [j \in Rows(rows * cols) |-> y[j \div cols][j % cols]]

\* NF.reshape of an array of length rows * cols to (rows, cols), row-major
NF_reshape_2d(x, rows, cols) ==
    [i \in Rows(rows) |-> [k \in Rows(cols) |-> x[i * cols + k]]]

\* Mutant: the batch is tiled (row j is input row j % batch_size)
RNF_repeat_Tiled(x, batch_size, repeats) ==
    [j \in Rows(batch_size * repeats) |-> x[j % batch_size]]

\* nnabla_rl.functions.repeat(x, repeats, axis=0) for x of batch_size rows:
\* reshape to (batch_size, 1, ...), broadcast to (batch_size, repeats, ...),
\* reshape to (batch_size * repeats, ...)
RNF_repeat(x, batch_size, repeats) ==
    LET reshaped == [i \in Rows(batch_size) |-> [k \in Rows(1) |-> x[i]]]
        broadcast == [i \in Rows(batch_size) |->
                         [k \in Rows(repeats) |-> reshaped[i][0]]]
    IN  NF_reshape_flat(broadcast, batch_size, repeats)

\* q_target.q(s, a) of critic c
BCQ_q(w, c, s, a) == RInt(w[c].s * s + w[c].a * a)

\* Mutant: lmb weighs the maximum over the critics
BCQ_weighted_q_minmax_Swapped(lmb, q_values, j) ==
    LET column == {q_values[c][j] : c \in DOMAIN q_values}
    IN  RAdd(RMul(RSub(RInt(1), lmb), RMinOf(column)), RMul(lmb, RMaxOf(column)))

\* lmb * NF.min(q_values, axis=0) + (1.0 - lmb) * NF.max(q_values, axis=0),
\* row j
BCQ_weighted_q_minmax(lmb, q_values, j) ==
    LET column == {q_values[c][j] : c \in DOMAIN q_values}
    IN  RAdd(RMul(lmb, RMinOf(column)), RMul(RSub(RInt(1), lmb), RMaxOf(column)))

\* _QFunctionBCQTraining.compute_target; a_next_rep are the actions the
\* target policy returns for the rows of s_next_rep
BCQ_compute_target(in) ==
    LET batch_size == in.batch_size
        n == in.num_action_samples
        s_next_rep == RNF_repeat(in.s_next, batch_size, n)
        a_next_rep == in.a_next_rep
        q_values == [c \in DOMAIN in.w |->
                        [j \in Rows(batch_size * n) |->
                            BCQ_q(in.w, c, s_next_rep[j], a_next_rep[j])]]
        weighted_q_minmax == [j \in Rows(batch_size * n) |->
                                 BCQ_weighted_q_minmax(in.lmb, q_values, j)]
        reshaped == NF_reshape_2d(weighted_q_minmax, batch_size, n)
        next_q_value == [i \in Rows(batch_size) |->
                            RMaxOf({reshaped[i][k] : k \in Rows(n)})]
    IN  [stage |-> "done", in |-> in, s_next_rep |-> s_next_rep,
         weighted_q_minmax |-> weighted_q_minmax, reshaped |-> reshaped,
         next_q_value |-> next_q_value,
         target |-> [i \in Rows(batch_size) |->
                        RAdd(in.reward[i],
                             RMul(RMul(in.gamma, RInt(in.non_terminal[i])),
                                  next_q_value[i]))]]

\* Batches of one or two samples with one or two candidate actions each
BCQInputs ==
    UNION {[batch_size : {b}, num_action_samples : {n},
            s_next : {[i \in Rows(b) |-> i]},
            a_next_rep : [Rows(b * n) -> {0, 1}],
            w : [{1, 2} -> [s : 0..MaxQ, a : 0..MaxQ]],
            lmb : {RInt(0), Rat(3, 4), RInt(1)},
            gamma : {Rat(1, GammaDen), RInt(1)},
            reward : [Rows(b) -> {RInt(r) : r \in 0..MaxR}],
            non_terminal : [Rows(b) -> {0, 1}]] :
           b \in {1, 2}, n \in {1, 2}}

BCQInit ==
    /\ bcq \in {[stage |-> "input", in |-> in] : in \in BCQInputs}
    /\ trainers = <<>>
    /\ params = <<>>
    /\ call = NoCall
    /\ online = IdleOnline
    /\ iteration_num = 0
    /\ ncalls = <<>>
    /\ config = NoConfig
    /\ ddqn = IdleDDQN
    /\ c51 = IdleC51
    /\ trpo = IdleTRPO
    /\ algo = IdleAlgo
    /\ diag = IdleDiag
    /\ scope = IdleScope

BCQComputeTarget ==
    /\ bcq.stage = "input"
    /\ bcq' = BCQ_compute_target(bcq.in)
    /\ UNCHANGED <<trainers, params, call, iteration_num, ncalls, config, ddqn,
                   c51, trpo, algo, diag, scope, online>>

BCQNext == BCQComputeTarget

SpecBCQ == BCQInit /\ [][BCQNext]_vars

BCQDone == bcq.stage = "done"

\* The candidate actions of sample i
BCQ_candidates(in, i) ==
    {in.a_next_rep[i * in.num_action_samples + k] : k \in Rows(in.num_action_samples)}

\* The weighted value of the next state s and the candidate action a
BCQ_value(in, s, a) ==
    LET qs == {BCQ_q(in.w, c, s, a) : c \in DOMAIN in.w}
    IN  RAdd(RMul(in.lmb, RMinOf(qs)), RMul(RSub(RInt(1), in.lmb), RMaxOf(qs)))

\* C21: for every sample i the BCQ target is reward_i + gamma *
\* non_terminal_i * max over the candidate next actions a_k of
\* [lmb * min over target critics Q_j(s_next_i, a_k) + (1 - lmb) * max over
\* target critics Q_j(s_next_i, a_k)], one value per sample; for
\* non_terminal_i = 0 the target equals reward_i.
C21_BCQTarget ==
    BCQDone =>
        LET in == bcq.in
        IN  /\ DOMAIN bcq.target = Rows(in.batch_size)
            /\ \A i \in Rows(in.batch_size) :
                 /\ bcq.target[i] =
                      RAdd(in.reward[i],
                           RMul(RMul(in.gamma, RInt(in.non_terminal[i])),
                                RMaxOf({BCQ_value(in, in.s_next[i], a) :
                                          a \in BCQ_candidates(in, i)})))
                 /\ in.non_terminal[i] = 0 => bcq.target[i] = in.reward[i]

\* A batch of two samples, one terminal, whose critics disagree, whose
\* candidates differ in value and whose targets differ
C21_Witness ==
    /\ BCQDone
    /\ bcq.in.batch_size = 2
    /\ bcq.in.num_action_samples = 2
    /\ bcq.in.lmb = Rat(3, 4)
    /\ bcq.in.non_terminal[0] = 1
    /\ bcq.in.non_terminal[1] = 0
    /\ bcq.in.reward[0] = bcq.in.reward[1]
    /\ bcq.weighted_q_minmax[0] # bcq.weighted_q_minmax[1]
    /\ ~RIsInt(bcq.next_q_value[0])
    /\ bcq.target[0] # bcq.target[1]

\* C29: repeat(x, repeats, axis=0) places the repeats copies of input row i
\* at output rows i*repeats .. i*repeats + repeats - 1, so the reshape of
\* the value tensor to (batch_size, num_action_samples) puts exactly the
\* candidates of sample i in row i: the max over candidates for sample i
\* never includes a value computed from another sample's next state.
C29_RepeatKeepsSamplesTogether ==
    BCQDone =>
        LET in == bcq.in
            n == in.num_action_samples
        IN  /\ DOMAIN bcq.s_next_rep = Rows(in.batch_size * n)
            /\ \A i \in Rows(in.batch_size) : \A k \in Rows(n) :
                 /\ bcq.s_next_rep[i * n + k] = in.s_next[i]
                 /\ bcq.reshaped[i][k] =
                      BCQ_value(in, in.s_next[i], in.a_next_rep[i * n + k])
            /\ \A i \in Rows(in.batch_size) :
                 bcq.next_q_value[i] \in
                     {BCQ_value(in, in.s_next[i], a) : a \in BCQ_candidates(in, i)}

\* A batch of two samples with two candidates each in which the value of a
\* candidate of the other sample exceeds the maximum of sample 0
C29_Witness ==
    /\ BCQDone
    /\ bcq.in.batch_size = 2
    /\ bcq.in.num_action_samples = 2
    /\ \E j \in {2, 3} : ~RLe(bcq.weighted_q_minmax[j], bcq.next_q_value[0])
    /\ \E a \in BCQ_candidates(bcq.in, 0) :
         ~RLe(BCQ_value(bcq.in, bcq.in.s_next[1], a), bcq.next_q_value[0])


---------------------------------------------------------------------------
(* MunchausenDQN online training.  The explorer, the replay buffer and the *)
(* Q-function trainer are collaborators seen through the calls made on     *)
(* them: an iteration is the sequence of these calls, each with the number *)
(* of experiences or samples it carries and, for train and                 *)
(* update_priorities, the per-sample values.                               *)
Event(op, n, values) == [op |-> op, n |-> n, values |-> values]

\* np.abs of an array
np_abs(x) == [i \in DOMAIN x |-> Abs(x[i])]

\* SquaredTDQFunctionTrainer.train(batch): the diagnostics hold the
\* per-sample TD error under 'td_error'
SquaredTDQFunctionTrainer_train(batch_size, td) == <<Entry("td_error", FALSE, td)>>

\* Mutant: the priorities are the signed TD errors
MunchausenDQN_m_dqn_training_Signed(cfg, td) ==
    LET errors == SquaredTDQFunctionTrainer_train(cfg.batch_size, td)
        td_error == Errors_getitem(errors, "td_error").value
    IN  <<Event("sample", cfg.batch_size, <<>>),
          Event("train", cfg.batch_size, Errors_getitem(errors, "td_error").value),
          Event("update_priorities", Len(td_error), td_error)>>

\* MunchausenDQN._m_dqn_training: the calls it makes; td are the TD errors
\* the gradient step of this call measures
MunchausenDQN_m_dqn_training(cfg, td) ==
    LET errors == SquaredTDQFunctionTrainer_train(cfg.batch_size, td)
        td_error == np_abs(Errors_getitem(errors, "td_error").value)
    IN  <<Event("sample", cfg.batch_size, <<>>),
          Event("train", cfg.batch_size, Errors_getitem(errors, "td_error").value),
          Event("update_priorities", Len(td_error), td_error)>>

\* MunchausenDQN._run_online_training_iteration: the calls it makes when the
\* explorer returns k experiences
MunchausenDQN_run_online_training_iteration(cfg, it, k, td) ==
    <<Event("explorer.step", k, <<>>), Event("append_all", k, <<>>)>>
    \o (IF cfg.start_timesteps < it
        THEN IF it % cfg.learner_update_frequency = 0
             THEN MunchausenDQN_m_dqn_training(cfg, td)
             ELSE <<>>
        ELSE <<>>)

\* Configurations MunchausenDQNConfig.__post_init__ accepts (every field but
\* these three at its default)
MDQNConfigs ==
    [start_timesteps : 1..MaxFreq, learner_update_frequency : 1..MaxFreq,
     batch_size : BatchSizes]

MDQNInit ==
    /\ \E cfg \in MDQNConfigs :
         online = [stage |-> "mdqn", cfg |-> cfg, buffer |-> 0, it |-> 0,
                   log |-> <<>>]
    /\ iteration_num \in {0, 1}
    /\ trainers = <<>>
    /\ params = <<>>
    /\ call = NoCall
    /\ bcq = IdleBCQ
    /\ ncalls = <<>>
    /\ config = NoConfig
    /\ ddqn = IdleDDQN
    /\ c51 = IdleC51
    /\ trpo = IdleTRPO
    /\ algo = IdleAlgo
    /\ diag = IdleDiag
    /\ scope = IdleScope

\* One iteration of train_online: _run_online_training_iteration, then
\* iteration_num += 1.  The TD errors are drawn only when the iteration
\* trains.
MDQNIteration ==
    /\ online.stage = "mdqn"
    /\ iteration_num <= MaxIter + 1
    /\ \E k \in {1, 2}, td \in [1..online.cfg.batch_size -> {-1, 0, 1}] :
       \E log \in {MunchausenDQN_run_online_training_iteration(
                       online.cfg, iteration_num, k, td)} :
         /\ (Len(log) = 2 => \A i \in DOMAIN td : td[i] = 0)
         /\ online' = [online EXCEPT !.buffer = @ + k, !.it = iteration_num,
                                     !.log = log]
    /\ iteration_num' = iteration_num + 1
    /\ UNCHANGED <<trainers, params, call, ncalls, config, ddqn, c51, trpo,
                   algo, diag, scope, bcq>>

MDQNNext == MDQNIteration

SpecMDQN == MDQNInit /\ [][MDQNNext]_vars

\* The positions of the calls of an operation in the last iteration
EventsOf(op) == {i \in DOMAIN online.log : online.log[i].op = op}

MDQNIterated == online.stage = "mdqn" /\ online.log # <<>>

\* C23: in MunchausenDQN online training every iteration first steps the
\* explorer and appends the resulting experiences to the replay buffer;
\* Q-function training runs in that iteration if and only if
\* start_timesteps < iteration_num and iteration_num %
\* learner_update_frequency == 0; every training run samples the buffer once
\* with batch_size and is followed by exactly one update_priorities call
\* carrying the absolute value of the td_error returned by that train() call.
C23_OnlineIterationSchedule ==
    MDQNIterated =>
        LET log == online.log
            cfg == online.cfg
            due == /\ cfg.start_timesteps < online.it
                   /\ online.it % cfg.learner_update_frequency = 0
        IN  /\ log[1].op = "explorer.step"
            /\ log[2] = Event("append_all", log[1].n, <<>>)
            /\ EventsOf("explorer.step") = {1}
            /\ EventsOf("append_all") = {2}
            /\ (EventsOf("train") # {}) <=> due
            /\ ~due => Len(log) = 2
            /\ due =>
                 /\ Len(log) = 5
                 /\ log[3] = Event("sample", cfg.batch_size, <<>>)
                 /\ log[4].op = "train"
                 /\ Len(log[4].values) = cfg.batch_size
                 /\ log[5] = Event("update_priorities", cfg.batch_size,
                                   [i \in 1..cfg.batch_size |-> Abs(log[4].values[i])])

\* A training iteration whose TD errors are negative, and the iteration is
\* neither the first after start_timesteps nor at frequency 1
C23_Witness ==
    /\ MDQNIterated
    /\ online.cfg.learner_update_frequency = 2
    /\ online.cfg.batch_size = MaxBatch
    /\ online.it > online.cfg.start_timesteps + 1
    /\ Len(online.log) = 5
    /\ \A i \in DOMAIN online.log[4].values : online.log[4].values[i] = -1
    /\ online.log[5].values # online.log[4].values


---------------------------------------------------------------------------
(* ICML2015TRPO online training: the rollout loop of one iteration and the *)
(* batch it hands to the policy trainer.  An episode is the row of its     *)
(* rewards; the per-iteration buffer is the sequence of the episodes it    *)
(* holds, oldest first.                                                    *)

\* ReplayBuffer(capacity).append(experience): the oldest entry is dropped
\* when the buffer is full
ReplayBuffer_append(buffer, capacity, experience) ==
    LET appended == Append(buffer, experience)
    IN  IF Len(appended) > capacity
        THEN SubSeq(appended, Len(appended) - capacity + 1, Len(appended))
        ELSE appended

\* Mutant: the loop stops as soon as num_steps_per_iteration is reached
ICML2015TRPO_rollout_continues_Strict(num_steps, num_steps_per_iteration) ==
    num_steps < num_steps_per_iteration

\* The condition of the rollout loop
ICML2015TRPO_rollout_continues(num_steps, num_steps_per_iteration) ==
    num_steps <= num_steps_per_iteration

NoRollout == [num_steps |-> 0, appended |-> 0, raised |-> "none", batch |-> <<>>]

\* ICML2015TRPO.__init__ with an accepted ICML2015TRPOParam
RolloutInit ==
    /\ \E n \in 1..MaxLen, gamma \in {RInt(0), Rat(1, GammaDen)} :
         online = [stage |-> "ready", num_steps_per_iteration |-> n,
                   gamma |-> gamma, buffer |-> <<>>, num_steps |-> 0,
                   appended |-> 0, last |-> NoRollout]
    /\ iteration_num = 0
    /\ trainers = <<>>
    /\ params = <<>>
    /\ call = NoCall
    /\ bcq = IdleBCQ
    /\ ncalls = <<>>
    /\ config = NoConfig
    /\ ddqn = IdleDDQN
    /\ c51 = IdleC51
    /\ trpo = IdleTRPO
    /\ algo = IdleAlgo
    /\ diag = IdleDiag
    /\ scope = IdleScope

\* _run_online_training_iteration, lines 86-88: a new buffer, num_steps = 0
RolloutBegin ==
    /\ online.stage = "ready"
    /\ iteration_num < MaxIter
    /\ online' = [online EXCEPT !.stage = "rollout", !.buffer = <<>>,
                                !.num_steps = 0, !.appended = 0]
    /\ UNCHANGED <<trainers, params, call, iteration_num, ncalls, config, ddqn,
                   c51, trpo, algo, diag, scope, bcq>>

\* The episodes of the rollout: 1..MaxLen steps, each of reward 1
RolloutEpisodes == {[k \in Indices(L) |-> RInt(1)] : L \in 1..MaxLen}

\* One pass of the rollout loop: an episode of one or more steps is run and
\* appended
RolloutEpisode ==
    /\ online.stage = "rollout"
    /\ ICML2015TRPO_rollout_continues(online.num_steps,
                                      online.num_steps_per_iteration)
    /\ \E experience \in RolloutEpisodes :
         online' = [online EXCEPT
                       !.buffer = ReplayBuffer_append(
                                      @, online.num_steps_per_iteration,
                                      [r |-> experience]),
                       !.num_steps = @ + Len(ToSeq(experience)),
                       !.appended = @ + 1]
    /\ UNCHANGED <<trainers, params, call, iteration_num, ncalls, config, ddqn,
                   c51, trpo, algo, diag, scope, bcq>>

\* The loop has ended: _trpo_training(self._buffer) up to the experience
\* handed to the policy trainer, then iteration_num += 1
RolloutTrain ==
    /\ online.stage = "rollout"
    /\ ~ICML2015TRPO_rollout_continues(online.num_steps,
                                       online.num_steps_per_iteration)
    /\ \E r \in {ICML2015TRPO_align_experiences(
                     online.buffer, online.gamma,
                     online.num_steps_per_iteration)} :
         online' = [online EXCEPT
                       !.stage = "ready",
                       !.last = [num_steps |-> online.num_steps,
                                 appended |-> online.appended,
                                 raised |-> r.raised, batch |-> r.batch]]
    /\ iteration_num' = iteration_num + 1
    /\ UNCHANGED <<trainers, params, call, ncalls, config, ddqn,
                   c51, trpo, algo, diag, scope, bcq>>

RolloutNext == RolloutBegin \/ RolloutEpisode \/ RolloutTrain

SpecRollout == RolloutInit /\ [][RolloutNext]_vars

\* The transitions in the per-iteration buffer
BufferedSteps == StepsOf([e \in DOMAIN online.buffer |-> online.buffer[e].r])

RolloutTrained ==
    online.stage = "ready" /\ iteration_num > 0 /\ online.buffer # <<>>

\* C24: in ICML2015TRPO, for every sequence of episode lengths (each >= 1),
\* the rollout loop stops only after strictly more than
\* num_steps_per_iteration transitions were collected, and even though the
\* per-iteration buffer holds at most num_steps_per_iteration episodes (oldest
\* evicted first), the transitions still in the buffer number at least
\* num_steps_per_iteration: the assertion in _align_experiences never fails
\* and every batch handed to the policy trainer has exactly
\* num_steps_per_iteration rows.
C24_RolloutFillsBatch ==
    RolloutTrained =>
        /\ online.last.num_steps > online.num_steps_per_iteration
        /\ Len(online.buffer) <= online.num_steps_per_iteration
        /\ BufferedSteps >= online.num_steps_per_iteration
        /\ online.last.raised # "AssertionError"
        /\ online.last.raised = "none" =>
               Len(online.last.batch) = online.num_steps_per_iteration

\* An iteration in which the buffer evicted an episode and a batch was
\* handed to the trainer
C24_Witness ==
    /\ RolloutTrained
    /\ online.num_steps_per_iteration >= 2
    /\ online.last.appended > Len(online.buffer)
    /\ BufferedSteps < online.last.num_steps
    /\ online.last.raised = "none"
    /\ Len(online.last.batch) = online.num_steps_per_iteration
    /\ BufferedSteps > online.num_steps_per_iteration


---------------------------------------------------------------------------
(* GAIL online training: the rollout of an iteration and the agent batch   *)
(* of the discriminator update.                                            *)

\* random.sample(list(range(n)), k): the outcomes, k distinct indices or
\* ValueError when the sample is larger than the population
random_sample(n, k) ==
    IF k > n THEN {[raised |-> "ValueError", idx |-> {}]}
    ELSE {[raised |-> "none", idx |-> t] :
             t \in {u \in SUBSET Rows(n) : Cardinality(u) = k}}

\* GAIL._align_state_and_action(buffer_iterator, batch_size): the outcomes;
\* the buffer is the sequence of the episodes it holds
GAIL_align_state_and_action(buffer, batch_size) ==
    LET s_batch == np_concatenate(buffer)
    IN  {[raised |-> o.raised, idx |-> o.idx, shape |-> Len(s_batch)] :
            o \in random_sample(Len(s_batch), batch_size)}

\* The buffer after the episodes i.. were appended
RECURSIVE ReplayBuffer_append_from(_, _, _, _)
ReplayBuffer_append_from(buffer, capacity, experiences, i) ==
    IF i > Len(experiences) THEN buffer
    ELSE ReplayBuffer_append_from(
             ReplayBuffer_append(buffer, capacity, experiences[i]),
             capacity, experiences, i + 1)

\* GAIL._run_online_training_iteration with the episodes the rollout loop
\* collects, up to the agent batch of the discriminator update: the outcomes
GAIL_run_online_training_iteration(self, it, experiences) ==
    IF it % self.num_steps_per_iteration # 0
    THEN {[ran |-> "none", buffer |-> <<>>, raised |-> "none", idx |-> {},
           shape |-> 0]}
    ELSE LET buffer == ReplayBuffer_append_from(
                           <<>>, self.num_steps_per_iteration, experiences, 1)
         IN  IF it % self.discriminator_update_interval = 0
             THEN {[ran |-> "discriminator", buffer |-> buffer,
                    raised |-> o.raised, idx |-> o.idx, shape |-> o.shape] :
                      o \in GAIL_align_state_and_action(
                                buffer, self.discriminator_batch_size)}
             ELSE {[ran |-> "rollout", buffer |-> buffer, raised |-> "none",
                    idx |-> {}, shape |-> StepsOf(buffer)]}

\* The fields of a GAILParam with the given batch sizes and intervals
GAILFields(n, b, f) ==
    [Defaults("GAILParam") EXCEPT !.num_steps_per_iteration = RInt(n),
                                  !.pi_batch_size = RInt(n),
                                  !.vf_batch_size = RInt(n),
                                  !.discriminator_batch_size = RInt(b),
                                  !.discriminator_update_interval = RInt(f)]

\* The rollouts of an iteration: one or two episodes of reward 1
GAILRollouts(n) ==
    {b \in {<<e>> : e \in RolloutEpisodes} \cup (RolloutEpisodes \X RolloutEpisodes) :
        Collected(b, n)}

\* GAIL.__init__ with a GAILParam that __post_init__ accepts
GAILInit ==
    /\ \E n \in 1..MaxLen, b \in 1..MaxLen, f \in 1..MaxFreq :
         /\ GAILParam_post_init(GAILFields(n, b, f))
         /\ online = [stage |-> "gail",
                      self |-> [num_steps_per_iteration |-> n,
                                discriminator_batch_size |-> b,
                                discriminator_update_interval |-> f],
                      it |-> 0,
                      last |-> [ran |-> "none", buffer |-> <<>>,
                                raised |-> "none", idx |-> {}, shape |-> 0]]
    /\ iteration_num = 0
    /\ trainers = <<>>
    /\ params = <<>>
    /\ call = NoCall
    /\ bcq = IdleBCQ
    /\ ncalls = <<>>
    /\ config = NoConfig
    /\ ddqn = IdleDDQN
    /\ c51 = IdleC51
    /\ trpo = IdleTRPO
    /\ algo = IdleAlgo
    /\ diag = IdleDiag
    /\ scope = IdleScope

\* One iteration of train_online, then iteration_num += 1; an iteration
\* that raised ends the training
GAILIteration ==
    /\ online.stage = "gail"
    /\ online.last.raised = "none"
    /\ iteration_num <= MaxIter
    /\ \E experiences \in GAILRollouts(online.self.num_steps_per_iteration) :
       \E o \in GAIL_run_online_training_iteration(online.self, iteration_num,
                                                   experiences) :
         online' = [online EXCEPT !.it = iteration_num, !.last = o]
    /\ iteration_num' = iteration_num + 1
    /\ UNCHANGED <<trainers, params, call, ncalls, config, ddqn, c51, trpo,
                   algo, diag, scope, bcq>>

GAILNext == GAILIteration

SpecGAIL == GAILInit /\ [][GAILNext]_vars

\* C25: for every GAILParam accepted by __post_init__, each discriminator
\* update draws exactly discriminator_batch_size distinct agent transitions
\* from the transitions collected in the current iteration without failing:
\* discriminator_batch_size never exceeds the number of agent transitions
\* available to _align_state_and_action.
C25_DiscriminatorBatchAvailable ==
    (online.stage = "gail" /\ online.last.ran = "discriminator") =>
        /\ online.self.discriminator_batch_size <= online.last.shape
        /\ online.last.raised = "none"
        /\ Cardinality(online.last.idx) = online.self.discriminator_batch_size
        /\ online.last.idx \subseteq Rows(online.last.shape)


---------------------------------------------------------------------------
(* TD3 online training: the environment interaction of an iteration.  A    *)
(* state of the environment is a small number; self._state is -1 while it  *)
(* is None.  An experience is kept as its s_current, its s_next and its    *)
(* non_terminal flag.                                                      *)
EnvStates == {0, 1, 2}

NoExperience == [s |-> -1, s_next |-> -1, non_terminal |-> 1]

\* Mutant: self._state is not advanced to the next state
TD3_run_online_training_iteration_Stale(self, it, env) ==
    LET was_none == self._state = -1
        state == IF was_none THEN env.reset ELSE self._state
        episode_timesteps == (IF was_none THEN 0 ELSE self._episode_timesteps) + 1
        non_terminal == IF env.done /\ episode_timesteps < self.max_episode_steps
                        THEN 0 ELSE 1
        experience == [s |-> state, s_next |-> env.next_state,
                       non_terminal |-> non_terminal]
    IN  [self |-> [self EXCEPT
                      !._state = IF env.done THEN env.reset_after ELSE state,
                      !._episode_timesteps = IF env.done THEN 0
                                             ELSE episode_timesteps],
         appended |-> <<experience>>,
         resets |-> (IF was_none THEN <<env.reset>> ELSE <<>>)
                    \o (IF env.done THEN <<env.reset_after>> ELSE <<>>),
         trained |-> self.start_timesteps < it]

\* TD3._run_online_training_iteration; env holds what the environment
\* returns: reset (the state of a reset at the start), next_state and done
\* of the step, reset_after (the state of a reset at the end)
TD3_run_online_training_iteration(self, it, env) ==
    LET was_none == self._state = -1
        state == IF was_none THEN env.reset ELSE self._state
        episode_timesteps == (IF was_none THEN 0 ELSE self._episode_timesteps) + 1
        non_terminal == IF env.done /\ episode_timesteps < self.max_episode_steps
                        THEN 0 ELSE 1
        experience == [s |-> state, s_next |-> env.next_state,
                       non_terminal |-> non_terminal]
    IN  [self |-> [self EXCEPT
                      !._state = IF env.done THEN env.reset_after
                                 ELSE env.next_state,
                      !._episode_timesteps = IF env.done THEN 0
                                             ELSE episode_timesteps],
         appended |-> <<experience>>,
         resets |-> (IF was_none THEN <<env.reset>> ELSE <<>>)
                    \o (IF env.done THEN <<env.reset_after>> ELSE <<>>),
         trained |-> self.start_timesteps < it]

\* TD3.__init__: self._state = None, self._episode_timesteps = None
TD3OnlineInit ==
    /\ \E st \in {0, 1} :
         online = [stage |-> "td3",
                   self |-> [_state |-> -1, _episode_timesteps |-> -1,
                             start_timesteps |-> st,
                             max_episode_steps |-> MaxLen],
                   first |-> TRUE, prev |-> NoExperience, prev_done |-> FALSE,
                   prev_reset |-> -1, prev_timesteps |-> -1, done |-> FALSE,
                   appended |-> <<>>, resets |-> <<>>, trained |-> FALSE,
                   n_resets |-> 0, n_done |-> 0, n_appended |-> 0]
    /\ iteration_num = 0
    /\ trainers = <<>>
    /\ params = <<>>
    /\ call = NoCall
    /\ bcq = IdleBCQ
    /\ ncalls = <<>>
    /\ config = NoConfig
    /\ ddqn = IdleDDQN
    /\ c51 = IdleC51
    /\ trpo = IdleTRPO
    /\ algo = IdleAlgo
    /\ diag = IdleDiag
    /\ scope = IdleScope

\* One iteration of train_online, then iteration_num += 1.  The environment
\* ends an episode at max_episode_steps at the latest; a reset that is not
\* called returns nothing (-1).
TD3OnlineIteration ==
    /\ online.stage = "td3"
    /\ iteration_num <= MaxIter
    /\ \E reset \in IF online.self._state = -1 THEN EnvStates ELSE {-1},
          next_state \in EnvStates, done \in BOOLEAN :
       \E reset_after \in IF done THEN EnvStates ELSE {-1} :
       \E r \in {TD3_run_online_training_iteration(
                     online.self, iteration_num,
                     [reset |-> reset, next_state |-> next_state,
                      done |-> done, reset_after |-> reset_after])} :
         /\ (~done => (IF online.self._state = -1 THEN 0
                       ELSE online.self._episode_timesteps) + 1
                          < online.self.max_episode_steps)
         /\ online' = [online EXCEPT
               !.self = r.self,
               !.first = online.appended = <<>>,
               !.prev = IF online.appended = <<>> THEN NoExperience
                        ELSE online.appended[Len(online.appended)],
               !.prev_done = online.done,
               !.prev_reset = IF online.resets = <<>> THEN -1
                              ELSE online.resets[Len(online.resets)],
               !.prev_timesteps = online.self._episode_timesteps,
               !.done = done,
               !.appended = r.appended,
               !.resets = r.resets,
               !.trained = r.trained,
               !.n_resets = @ + Len(r.resets),
               !.n_done = @ + (IF done THEN 1 ELSE 0),
               !.n_appended = @ + Len(r.appended)]
    /\ iteration_num' = iteration_num + 1
    /\ UNCHANGED <<trainers, params, call, ncalls, config, ddqn, c51, trpo,
                   algo, diag, scope, bcq>>

TD3OnlineNext == TD3OnlineIteration

SpecTD3Online == TD3OnlineInit /\ [][TD3OnlineNext]_vars

TD3OnlineIterated == online.stage = "td3" /\ iteration_num > 0

\* C28: in TD3 online training the experiences appended to the replay
\* buffer form correctly chained episodes: exactly one experience is
\* appended per iteration; its s_current equals the s_next of the previously
\* appended experience when the previous step was not done, and equals the
\* state returned by env.reset() when the previous step was done or on the
\* first iteration; env.reset() is called exactly once per finished episode
\* (and once before the first step) and _episode_timesteps is then reset
\* to 0.
C28_ExperiencesChain ==
    TD3OnlineIterated =>
        /\ Len(online.appended) = 1
        /\ online.n_appended = iteration_num
        /\ online.appended[1].s =
               IF online.first THEN online.resets[1]
               ELSE IF online.prev_done THEN online.prev_reset
               ELSE online.prev.s_next
        /\ Len(online.resets) = (IF online.first THEN 1 ELSE 0)
                                + (IF online.done THEN 1 ELSE 0)
        /\ online.n_resets = online.n_done + 1
        /\ online.self._episode_timesteps =
               IF online.done THEN 0
               ELSE IF online.first \/ online.prev_done THEN 1
               ELSE online.prev_timesteps + 1
        /\ online.done => online.self._state = online.resets[Len(online.resets)]
        /\ ~online.done => online.self._state = online.appended[1].s_next

\* The third iteration: the first episode ended at the first step, the
\* second episode goes on, and the states at hand are all different
C28_Witness ==
    /\ TD3OnlineIterated
    /\ iteration_num = 3
    /\ ~online.first
    /\ ~online.prev_done
    /\ ~online.done
    /\ online.n_done = 1
    /\ online.n_resets = 2
    /\ online.appended[1].s = online.prev.s_next
    /\ online.appended[1].s # online.prev.s
    /\ online.appended[1].s # online.appended[1].s_next
    /\ online.self._episode_timesteps = 2
    /\ online.trained

===========================================================================
